---- MODULE Spec2Model ----
(***************************************************************************)
(* RefineDB: the tree-walker executor (rdb-analyzer/src/data/treewalker/   *)
(* exec.rs) and the storage planner (rdb-analyzer/src/storage_plan/        *)
(* planner.rs).                                                            *)
(*                                                                         *)
(* Spec      the executor: run_graph's transaction loop and the dataflow   *)
(*           scheduler of recursively_run_graph, one step per completed    *)
(*           node future.                                                  *)
(* SpecPlan  the planner: generate_plan_for_schema applied to schemas and  *)
(*           old plans drawn from a catalogue, with a nondeterministic     *)
(*           random source for key minting.                                *)
(*                                                                         *)
(* Indexes are 1-based here and 0-based in the source; 0 stands for None   *)
(* wherever the source has an Option<u32>.                                 *)
(***************************************************************************)
EXTENDS Naturals, Integers, Sequences, FiniteSets, TLC

\* exec.rs:90
MAX_RECURSION_DEPTH == 128

\* exec.rs:125, `for i in 0..10`
MAX_ATTEMPTS == 10

(***************************************************************************)
(* VM values.  One record shape for every value, so that any two values    *)
(* can be compared: t is the variant, n an integer payload, s a string     *)
(* payload (a string value, a type name), p the PathWalker's key prefix    *)
(* of a resident table or set, f the fields of a fresh table.              *)
(***************************************************************************)
MkVal(t, n, s, p) == [t |-> t, n |-> n, s |-> s, p |-> p, f |-> <<>>]

\* Option::None, the result of an effect node
NoneV == MkVal("None", 0, "", <<>>)
Int64(n) == MkVal("Int64", n, "", <<>>)
StringV(s) == MkVal("String", 0, s, <<>>)
Bool(b) == MkVal("Bool", IF b THEN 1 ELSE 0, "", <<>>)
Null(ty) == MkVal("Null", 0, ty, <<>>)
\* the root map built by generate_root_map
RootMap == MkVal("Map", 0, "", <<>>)
ResidentTable(ty, path) == MkVal("Table", 0, ty, path)
\* VmTableValueKind::Fresh: a table built by the script, field name -> value
FreshTable(ty, fields) == [MkVal("Table", 1, ty, <<>>) EXCEPT !.f = fields]
IsFresh(v) == v.n = 1
\* VmSetValueKind::Resident
ResidentSet(member_ty, path) == MkVal("Set", 0, member_ty, path)
\* VmSetValueKind::Fresh: serialized primary key -> member
FreshSet(member_ty, members) == [MkVal("Set", 1, member_ty, <<>>) EXCEPT !.f = members]
\* VmValue::List: the member type and the elements, first to last
ListV(member_ty, elems) == [MkVal("List", 0, member_ty, <<>>) EXCEPT !.f = elems]

\* the empty byte string `&[]` stored under a table's or a set's own key
EmptyValue == MkVal("Bytes", 0, "", <<>>)

is_null(v) == v.t = "Null"
IsSome(v) == v.t # "None"

(***************************************************************************)
(* Results of fallible operations: Ok(value), Err(error) or a panic.       *)
(***************************************************************************)
Ok(v) == [kind |-> "Ok", val |-> v, err |-> "", msg |-> ""]
Err(e) == [kind |-> "Err", val |-> NoneV, err |-> e, msg |-> ""]
ErrMsg(e, m) == [kind |-> "Err", val |-> NoneV, err |-> e, msg |-> m]
Panic(m) == [kind |-> "Panic", val |-> NoneV, err |-> "panic", msg |-> m]
Unset == [kind |-> "Unset", val |-> NoneV, err |-> "", msg |-> ""]

(***************************************************************************)
(* Bytecode.  A node is (op, in_edges, precondition); `a` is the op's      *)
(* numeric operand (const, param or subgraph index), `id` its identifier   *)
(* operand, `ty` the output type the type checker recorded for the node    *)
(* ("" for an effect node, whose type_info is None).                       *)
(***************************************************************************)
Node(op, a, id, in_edges, pre, ty) ==
    [op |-> op, a |-> a, id |-> id, in_edges |-> in_edges, pre |-> pre, ty |-> ty]

Graph(nodes, output) == [nodes |-> nodes, output |-> output]

\* TwGraphNode::is_select
is_select(n) == n.op = "Select"

\* TwGraphNode::is_optional_chained: the ops that short-circuit on a Null input
is_optional_chained(n) ==
    n.op \in {"GetField", "InsertIntoTable", "Not", "GetSetElement", "InsertIntoSet",
              "DeleteFromSet", "Call"}

(***************************************************************************)
(* The schema and storage plan the executor scenarios run against:         *)
(*   type Item { a: int64, b: string, c: string }  export Item item;       *)
(*   type Member { @primary id: string, name: string, n: int64 }           *)
(*   export set<Member> some_item;                                         *)
(* Item and Member are not recursive, so their nodes are flattened and     *)
(* the KV key of a field is the walker's prefix and the field's own        *)
(* storage key.                                                            *)
(***************************************************************************)
FieldTy(f) ==
    CASE f = "a" -> "Int64" [] f = "b" -> "String" [] f = "n" -> "Int64" [] OTHER -> "String"

StorageKeyOf(f) ==
    CASE f = "a" -> 1 [] f = "b" -> 2 [] f = "some_item" -> 4 [] f = "id" -> 5
      [] f = "name" -> 6 [] f = "n" -> 7 [] f = "lo" -> 8 [] f = "tags" -> 9
      [] f = "hi" -> 10 [] f = "inner" -> 11 [] OTHER -> 3

\* the FieldType of a field of the specialized type: `tags` is a set<Tag>, Tag
\* the shape of Member, and `inner` an Item
FieldKind(f) == CASE f = "tags" -> "Set" [] f = "inner" -> "Table" [] OTHER -> "Primitive"

\* the fields of a type, in the order of its BTreeMap
FieldNames(ty) ==
    IF ty = "Member" THEN <<"id", "inner", "n", "name", "tags">> ELSE <<"a", "b", "c">>

\* VmType::set_primary_key: the @primary field of the member type
set_primary_key(member_ty) == "id"

\* PathWalker::enter_field followed by generate_key
enter_field(path, f) == Append(path, StorageKeyOf(f))

KeyA == enter_field(<<>>, "a")
KeyB == enter_field(<<>>, "b")
KeyC == enter_field(<<>>, "c")

\* PrimitiveValue::serialize_for_key_component: the bytes of a primary key
\* inside a KV key.  The keys of the scenarios take one byte each, but for
\* "test_id+" (the bytes of "test_id" and one more byte) and "test_id0+" (the
\* bytes of "test_id", a 0x00 byte and one more byte)
serialize_for_key_component(v) ==
    CASE v.t = "Int64" -> <<10 + v.n>>
      [] v.s = "test_id" -> <<1>>
      [] v.s = "test_id+" -> <<1, 7>>
      [] v.s = "test_id0+" -> <<1, 0, 7>>
      [] v.s = "other_id" -> <<2>>
      [] OTHER -> <<3>>

\* PathWalker: the two subspaces under a set's key, and a member's prefix in
\* the data subspace (primary_key_bytes . 0x00 . inner_path)
set_fast_scan_prefix(path) == Append(path, 0)
set_data_prefix(path) == Append(path, 1)
enter_set_raw(path, primary_key_value) ==
    set_data_prefix(path) \o primary_key_value \o <<0>>
enter_set(path, v) == enter_set_raw(path, serialize_for_key_component(v))

\* generate_root_map: export name -> resident table or set at the export's walker
generate_root_map(export) ==
    IF export = "some_item" THEN ResidentSet("Member", <<StorageKeyOf(export)>>)
    ELSE ResidentTable("Item", <<>>)

(***************************************************************************)
(* The KV store (KeyValueStore / KvTransaction).  A store is a function    *)
(* from present keys to values; a transaction buffers its writes (NoneV    *)
(* marks a deleted key) and applies them at an accepted commit.  Whether   *)
(* a get observes the transaction's own buffered writes depends on the     *)
(* backend (ryw).                                                          *)
(***************************************************************************)
EmptyStore == [k \in {} |-> NoneV]

StoreGet(store, key) == IF key \in DOMAIN store THEN store[key] ELSE NoneV

TxnGet(store, writes, ryw, key) ==
    IF ryw /\ key \in DOMAIN writes THEN writes[key] ELSE StoreGet(store, key)

TxnPut(writes, key, v) == [k \in DOMAIN writes \cup {key} |-> IF k = key THEN v ELSE writes[k]]

TxnDelete(writes, key) == TxnPut(writes, key, NoneV)

\* the order of KV keys: bytewise, a proper prefix first
KeyLess(a, b) ==
    \E j \in 1..(Len(a) + 1) :
        /\ \A q \in 1..(j - 1) : q <= Len(b) /\ a[q] = b[q]
        /\ j <= Len(b)
        /\ j > Len(a) \/ a[j] < b[j]

\* the keys delete_range(start, end) removes: start <= key < end
KeysInRange(store, writes, start, end) ==
    {k \in DOMAIN store \cup DOMAIN writes : (k = start \/ KeyLess(start, k)) /\ KeyLess(k, end)}

TxnDeleteRange(writes, keys) ==
    [k \in DOMAIN writes \cup keys |-> IF k \in keys THEN NoneV ELSE writes[k]]

ApplyWrites(store, writes) ==
    LET final(k) == IF k \in DOMAIN writes THEN writes[k] ELSE store[k]
        keys == {k \in DOMAIN store \cup DOMAIN writes : final(k) # NoneV}
    IN  [k \in keys |-> final(k)]

(***************************************************************************)
(* run_node, for every op but Call (which enters a sub-graph) and Select   *)
(* (which never reaches run_node).  The result carries the transaction's   *)
(* write buffer after the node and the keys the node read and wrote.       *)
(***************************************************************************)
NodeOut(r, w, rk, wk) ==
    [r |-> r, writes |-> w, rkeys |-> rk, wkeys |-> wk,
     kvops |-> Cardinality(rk) + Cardinality(wk)]

\* the highest parameter position the op indexes, plus one
Arity(op) ==
    CASE op \in {"GetField", "Not", "IsNull", "Nop", "Throw"} -> 1
      [] op \in {"InsertIntoTable", "Eq", "GetSetElement", "InsertIntoSet", "DeleteFromSet",
                  "PrependToList", "Add", "Sub"}
            -> 2
      [] op = "Reduce" -> 3
      [] OTHER -> 0

IsPrimitive(v) == v.t \in {"Int64", "String"}

\* read_table_element with the Null of a missing value typed as the table
read_table_element_TableNull(store, writes, ryw, table, key) ==
    IF IsFresh(table) THEN table.f[key]
    ELSE LET raw_data == TxnGet(store, writes, ryw, enter_field(table.p, key))
         IN  IF raw_data = NoneV THEN Null(table.s) ELSE raw_data

\* read_table_element: of a fresh table, the field's value; of a resident
\* table, for a primitive field what the KV holds, a typed Null if nothing, and
\* for a set or a table the resident value at the field's walker, unread
read_table_element(store, writes, ryw, table, key) ==
    IF IsFresh(table) THEN table.f[key]
    ELSE IF FieldKind(key) = "Set" THEN ResidentSet("Tag", enter_field(table.p, key))
    ELSE IF FieldKind(key) = "Table" THEN ResidentTable("Item", enter_field(table.p, key))
    ELSE LET raw_data == TxnGet(store, writes, ryw, enter_field(table.p, key))
         IN  IF raw_data = NoneV THEN Null(FieldTy(key)) ELSE raw_data

\* the keys read_table_element reads
ReadKeys(table, key) ==
    IF IsFresh(table) \/ FieldKind(key) # "Primitive" THEN {}
    ELSE {enter_field(table.p, key)}

\* the node's outcome so far, followed by a further KV step
ThenOut(out, next) ==
    NodeOut(next.r, next.writes, out.rkeys \cup next.rkeys, out.wkeys \cup next.wkeys)

\* `txn.put(&walker.generate_key(), &[])` for a table or a set
PutMarker(writes, path) == NodeOut(Ok(NoneV), TxnPut(writes, path, EmptyValue), {}, {path})

\* `*key.last_mut().unwrap() += 1` on a byte
IncLast(key) == [key EXCEPT ![Len(key)] = (@ + 1) % 256]

\* bug: only the membership index is cleared
delete_set_FastScanOnly(store, writes, path) ==
    LET fast_scan_start_key == set_fast_scan_prefix(path)
        fast_scan_keys == KeysInRange(store, writes, fast_scan_start_key,
                                      IncLast(fast_scan_start_key))
    IN  NodeOut(Ok(NoneV), TxnDeleteRange(writes, fast_scan_keys), {}, fast_scan_keys)

\* delete_set: two delete_range calls, each from a prefix of the set to the
\* prefix with its last byte incremented
delete_set(store, writes, path) ==
    LET fast_scan_start_key == set_fast_scan_prefix(path)
        data_start_key == set_data_prefix(path)
        fast_scan_keys == KeysInRange(store, writes, fast_scan_start_key,
                                      IncLast(fast_scan_start_key))
        data_keys == KeysInRange(store, writes, data_start_key, IncLast(data_start_key))
    IN  NodeOut(Ok(NoneV), TxnDeleteRange(TxnDeleteRange(writes, fast_scan_keys), data_keys),
                {}, fast_scan_keys \cup data_keys)

\* walk_and_insert at the walker `path`
RECURSIVE walk_and_insert(_, _, _, _)
RECURSIVE InsertFields(_, _, _, _, _, _)
RECURSIVE InsertMembers(_, _, _, _, _)
walk_and_insert(store, writes, path, value) ==
    CASE is_null(value) -> NodeOut(Ok(NoneV), TxnDelete(writes, path), {}, {path})
      [] IsPrimitive(value) -> NodeOut(Ok(NoneV), TxnPut(writes, path, value), {}, {path})
      [] value.t = "Table" /\ IsFresh(value) ->
            InsertFields(store, PutMarker(writes, path), path, value.f,
                         FieldNames(value.s), 1)
      [] value.t = "Set" /\ IsFresh(value) ->
            InsertMembers(store,
                          ThenOut(PutMarker(writes, path),
                                  delete_set(store, TxnPut(writes, path, EmptyValue), path)),
                          path, value.f, DOMAIN value.f)
      [] value.t = "Table" ->
            ThenOut(PutMarker(writes, path),
                    NodeOut(ErrMsg("NotImplemented", "table copy is not implemented"),
                            TxnPut(writes, path, EmptyValue), {}, {}))
      [] value.t = "Set" ->
            ThenOut(PutMarker(writes, path),
                    NodeOut(ErrMsg("NotImplemented", "set copy is not implemented"),
                            TxnPut(writes, path, EmptyValue), {}, {}))
      [] OTHER -> NodeOut(Panic("walk_and_insert encountered non-storable type"),
                          writes, {}, {})

\* the loop over the fields of a fresh table in walk_and_insert
InsertFields(store, out, path, fields, names, k) ==
    IF k > Len(names) \/ out.r.kind # "Ok" THEN out
    ELSE IF names[k] \notin DOMAIN fields
    THEN InsertFields(store, out, path, fields, names, k + 1)
    ELSE InsertFields(store,
                      ThenOut(out, walk_and_insert(store, out.writes,
                                                   enter_field(path, names[k]),
                                                   fields[names[k]])),
                      path, fields, names, k + 1)

\* the least of a set of serialized primary keys
Least(pks) == CHOOSE x \in pks : \A y \in pks \ {x} : KeyLess(x, y)

\* a member of a fresh set in walk_and_insert: its fast-scan key, then the
\* member at enter_set_raw
InsertMember1(store, out, path, primary_key_value, member) ==
    ThenOut(ThenOut(out, NodeOut(Ok(NoneV),
                                 TxnPut(out.writes,
                                        set_fast_scan_prefix(path) \o primary_key_value,
                                        EmptyValue),
                                 {}, {set_fast_scan_prefix(path) \o primary_key_value})),
            walk_and_insert(store,
                            TxnPut(out.writes,
                                   set_fast_scan_prefix(path) \o primary_key_value,
                                   EmptyValue),
                            enter_set_raw(path, primary_key_value), member))

\* the loop over the members of a fresh set in walk_and_insert, in the
\* order of the BTreeMap
InsertMembers(store, out, path, members, pks) ==
    IF pks = {} \/ out.r.kind # "Ok" THEN out
    ELSE InsertMembers(store, InsertMember1(store, out, path, Least(pks), members[Least(pks)]),
                       path, members, pks \ {Least(pks)})

\* delete_entry_from_set: the member's fast-scan key and its data range
delete_entry_from_set_IndexOnly(store, writes, path, primary_key_value) ==
    LET fast_scan_key == set_fast_scan_prefix(path) \o primary_key_value
    IN  NodeOut(Ok(NoneV), TxnDelete(writes, fast_scan_key), {}, {fast_scan_key})

delete_entry_from_set(store, writes, path, primary_key_value) ==
    LET fast_scan_key == set_fast_scan_prefix(path) \o primary_key_value
        data_start_key == set_data_prefix(path) \o primary_key_value \o <<0>>
        data_end_key == set_data_prefix(path) \o primary_key_value \o <<1>>
        keys == KeysInRange(store, writes, data_start_key, data_end_key)
    IN  NodeOut(Ok(NoneV), TxnDeleteRange(TxnDelete(writes, fast_scan_key), keys),
                {}, {fast_scan_key} \cup keys)

\* InsertIntoSet on a resident set: the fast-scan key, then the member
InsertIntoSet_IndexOnly(store, writes, value, set, primary_key_value) ==
    LET fast_scan_key == set_fast_scan_prefix(set.p) \o primary_key_value
    IN  NodeOut(Ok(NoneV), TxnPut(writes, fast_scan_key, EmptyValue), {}, {fast_scan_key})

InsertIntoSet(store, writes, value, set, primary_key_value) ==
    LET fast_scan_key == set_fast_scan_prefix(set.p) \o primary_key_value
    IN  ThenOut(NodeOut(Ok(NoneV), TxnPut(writes, fast_scan_key, EmptyValue),
                        {}, {fast_scan_key}),
                walk_and_insert(store, TxnPut(writes, fast_scan_key, EmptyValue),
                                enter_set_raw(set.p, primary_key_value), value))

\* Reduce(subgraph_index, has_range): the second operand
has_range(n) == n.id = "range"

\* the keys scan_keys(start, end) yields: the present keys with
\* start <= key < end
TxnScan(store, writes, ryw, start, end) ==
    {k \in DOMAIN store \cup DOMAIN writes :
        /\ TxnGet(store, writes, ryw, k) # NoneV
        /\ (k = start \/ KeyLess(start, k)) /\ KeyLess(k, end)}

\* a set of keys in ascending byte order, as the cursor yields them
RECURSIVE Ascending(_)
Ascending(keys) ==
    IF keys = {} THEN <<>>
    ELSE <<CHOOSE k \in keys : \A x \in keys \ {k} : KeyLess(k, x)>>
             \o Ascending(keys \ {CHOOSE k \in keys : \A x \in keys \ {k} : KeyLess(k, x)})

\* bug: the upper bound is taken as inclusive
range_end_Inclusive(n, params, range_prefix) ==
    IF has_range(n) /\ ~is_null(params[5])
    THEN IncLast(range_prefix \o serialize_for_key_component(params[5]))
    ELSE [range_prefix EXCEPT ![Len(range_prefix)] = @ + 1]

\* the bounds of the scan of Reduce over a set
range_start(n, params, range_prefix) ==
    IF has_range(n) /\ ~is_null(params[4])
    THEN range_prefix \o serialize_for_key_component(params[4])
    ELSE range_prefix

range_end(n, params, range_prefix) ==
    IF has_range(n) /\ ~is_null(params[5])
    THEN range_prefix \o serialize_for_key_component(params[5])
    ELSE [range_prefix EXCEPT ![Len(range_prefix)] = @ + 1]

\* the keys the scan of Reduce over the resident set params[3] yields
ReduceScan(n, params, store, writes, ryw) ==
    TxnScan(store, writes, ryw,
            range_start(n, params, set_fast_scan_prefix(params[3].p)),
            range_end(n, params, set_fast_scan_prefix(params[3].p)))

\* the member a scanned key stands for: `k.strip_prefix(range_prefix)`, then
\* enter_set_raw
ScannedMember(set, k) ==
    ResidentTable(set.s, enter_set_raw(set.p, SubSeq(k, Len(set.p) + 2, Len(k))))

\* the elements Reduce visits, in order: those of the list, or the members
\* of the set the scan yields
ReduceElements(n, params, store, writes, ryw) ==
    IF params[3].t = "List" THEN params[3].f
    ELSE [j \in 1..Cardinality(ReduceScan(n, params, store, writes, ryw)) |->
             ScannedMember(params[3], Ascending(ReduceScan(n, params, store, writes, ryw))[j])]

\* Reduce up to its first call of the sub-graph: the optional chain on
\* list_or_set alone, and for a set the scan; Ok carries reduce_init
ReduceHead(n, params, store, writes, ryw) ==
    IF is_null(params[3])
    THEN NodeOut(Ok(IF n.ty = "" THEN NoneV ELSE Null(n.ty)), writes, {}, {})
    ELSE IF params[3].t = "List" THEN NodeOut(Ok(params[2]), writes, {}, {})
    ELSE IF params[3].t # "Set" THEN NodeOut(Panic("unreachable"), writes, {}, {})
    ELSE IF IsFresh(params[3])
    THEN NodeOut(Err("FreshTableOrSetNotSupported"), writes, {}, {})
    ELSE IF has_range(n) /\ Len(params) < 5
    THEN NodeOut(Panic("index out of bounds"), writes, {}, {})
    ELSE IF has_range(n) /\ \E b \in {4, 5} : ~is_null(params[b]) /\ ~IsPrimitive(params[b])
    THEN NodeOut(Panic("unwrap_primitive"), writes, {}, {})
    ELSE NodeOut(Ok(params[2]), writes,
                 {set_fast_scan_prefix(params[3].p)}
                     \cup ReduceScan(n, params, store, writes, ryw), {})

\* bug: a Null is thrown as an error with an empty message
Throw_NullAsMessage(msg) ==
    IF is_null(msg) THEN ErrMsg("ScriptThrownError", "")
    ELSE IF msg.t = "String" THEN ErrMsg("ScriptThrownError", msg.s)
    ELSE Panic("unwrap_string")

\* TwGraphNode::Throw
Throw(msg) ==
    IF is_null(msg) THEN Err("ScriptThrownNull")
    ELSE IF msg.t = "String" THEN ErrMsg("ScriptThrownError", msg.s)
    ELSE Panic("unwrap_string")

(***************************************************************************)
(* Add and Sub.  An Int64 of the model is IntBits wide (64 in the source): *)
(* the values are -2^(IntBits-1) .. 2^(IntBits-1) - 1, and the wrapping    *)
(* operations work on the two's-complement bit pattern.                    *)
(***************************************************************************)
IntBits == 8

Modulus == 2 ^ IntBits
MinInt == -(2 ^ (IntBits - 1))
MaxInt == 2 ^ (IntBits - 1) - 1

\* `x as u64` and `x as i64`
ToUnsigned(x) == IF x < 0 THEN x + Modulus ELSE x
ToSigned(u) == IF u > MaxInt THEN u - Modulus ELSE u

\* bug: the sum is clamped to the range instead of wrapped
wrapping_add_Saturating(l, r) ==
    IF l + r > MaxInt THEN MaxInt ELSE IF l + r < MinInt THEN MinInt ELSE l + r

\* i64::wrapping_add and i64::wrapping_sub
wrapping_add(l, r) == ToSigned((ToUnsigned(l) + ToUnsigned(r)) % Modulus)
wrapping_sub(l, r) == ToSigned((ToUnsigned(l) + Modulus - ToUnsigned(r)) % Modulus)

\* `format!("{}{}", l, r)`; strings are atoms in the model, and one atom
\* stands for every concatenation of two non-empty strings
format(l, r) == IF r = "" THEN l ELSE IF l = "" THEN r ELSE "{}{}"

\* TwGraphNode::Add and TwGraphNode::Sub (the model has no Double values)
Add(l, r) ==
    CASE l.t = "Int64" /\ r.t = "Int64" -> Ok(Int64(wrapping_add(l.n, r.n)))
      [] l.t = "String" /\ r.t = "String" -> Ok(StringV(format(l.s, r.s)))
      [] OTHER -> Panic("unreachable")

Sub(l, r) ==
    CASE l.t = "Int64" /\ r.t = "Int64" -> Ok(Int64(wrapping_sub(l.n, r.n)))
      [] OTHER -> Panic("unreachable")

\* whether one of the parameters is a Null
HasNull(params) == \E i \in 1..Len(params) : is_null(params[i])

\* bug: the node is short-circuited only when every parameter is a Null
ShortCircuits_AllNull(n, params) ==
    is_optional_chained(n) /\ params # <<>> /\ \A i \in 1..Len(params) : is_null(params[i])

\* the optional chain of run_node: the node is optional-chained and one of
\* its parameters is a Null
ShortCircuits(n, params) == is_optional_chained(n) /\ HasNull(params)

run_node(n, params, graph_params, consts, store, writes, ryw) ==
    IF ShortCircuits(n, params)
    THEN NodeOut(Ok(IF n.ty = "" THEN NoneV ELSE Null(n.ty)), writes, {}, {})
    ELSE IF Len(params) < Arity(n.op)
    THEN NodeOut(Panic("index out of bounds"), writes, {}, {})
    ELSE CASE n.op = "LoadConst" -> NodeOut(Ok(consts[n.a]), writes, {}, {})
           [] n.op = "LoadParam" ->
                IF n.a <= Len(graph_params)
                THEN NodeOut(Ok(graph_params[n.a]), writes, {}, {})
                ELSE NodeOut(Panic("index out of bounds"), writes, {}, {})
           [] n.op = "GetField" ->
                CASE params[1].t = "Map" -> NodeOut(Ok(generate_root_map(n.id)), writes, {}, {})
                  [] params[1].t = "Table" ->
                        NodeOut(Ok(read_table_element(store, writes, ryw, params[1], n.id)),
                                writes,
                                IF FieldKind(n.id) = "Primitive"
                                THEN {enter_field(params[1].p, n.id)} ELSE {}, {})
                  [] OTHER -> NodeOut(Panic("unreachable"), writes, {}, {})
           [] n.op = "InsertIntoTable" ->
                IF params[2].t # "Table" THEN NodeOut(Panic("unwrap_table"), writes, {}, {})
                ELSE IF IsFresh(params[2])
                THEN NodeOut(Err("FreshTableOrSetNotSupported"), writes, {}, {})
                ELSE walk_and_insert(store, writes, enter_field(params[2].p, n.id),
                                     params[1])
           [] n.op = "GetSetElement" ->
                IF ~IsPrimitive(params[1]) \/ params[2].t # "Set"
                THEN NodeOut(Panic("unreachable"), writes, {}, {})
                ELSE IF IsFresh(params[2])
                THEN NodeOut(Err("FreshTableOrSetNotSupported"), writes, {}, {})
                ELSE NodeOut(Ok(ResidentTable(params[2].s, enter_set(params[2].p, params[1]))),
                             writes, {}, {})
           [] n.op = "InsertIntoSet" ->
                IF params[1].t # "Table" THEN NodeOut(Panic("unwrap_table"), writes, {}, {})
                ELSE IF params[2].t # "Set" THEN NodeOut(Panic("unwrap_set"), writes, {}, {})
                ELSE IF IsFresh(params[1])
                        /\ set_primary_key(params[2].s) \notin DOMAIN params[1].f
                THEN NodeOut(Panic("read_table_element: key not found in table"),
                             writes, {}, {})
                ELSE IF ~IsPrimitive(read_table_element(store, writes, ryw, params[1],
                                                        set_primary_key(params[2].s)))
                THEN NodeOut(Panic("unwrap_primitive"), writes,
                             ReadKeys(params[1], set_primary_key(params[2].s)), {})
                ELSE IF IsFresh(params[2])
                THEN NodeOut(Err("FreshTableOrSetNotSupported"), writes,
                             ReadKeys(params[1], set_primary_key(params[2].s)), {})
                ELSE ThenOut(NodeOut(Ok(NoneV), writes,
                                     ReadKeys(params[1], set_primary_key(params[2].s)), {}),
                             InsertIntoSet(store, writes, params[1], params[2],
                                           serialize_for_key_component(
                                               read_table_element(
                                                   store, writes, ryw, params[1],
                                                   set_primary_key(params[2].s)))))
           [] n.op = "DeleteFromSet" ->
                IF ~IsPrimitive(params[1]) \/ params[2].t # "Set"
                THEN NodeOut(Panic("unreachable"), writes, {}, {})
                ELSE IF IsFresh(params[2])
                THEN NodeOut(Err("FreshTableOrSetNotSupported"), writes, {}, {})
                ELSE delete_entry_from_set(store, writes, params[2].p,
                                           serialize_for_key_component(params[1]))
           [] n.op = "Eq" -> NodeOut(Ok(Bool(params[1] = params[2])), writes, {}, {})
           [] n.op = "Add" -> NodeOut(Add(params[1], params[2]), writes, {}, {})
           [] n.op = "Sub" -> NodeOut(Sub(params[1], params[2]), writes, {}, {})
           [] n.op = "CreateList" -> NodeOut(Ok(ListV(n.id, <<>>)), writes, {}, {})
           [] n.op = "PrependToList" ->
                IF params[2].t = "List"
                THEN NodeOut(Ok(ListV(params[2].s, <<params[1]>> \o params[2].f)),
                             writes, {}, {})
                ELSE NodeOut(Panic("unreachable"), writes, {}, {})
           [] n.op = "Reduce" -> ReduceHead(n, params, store, writes, ryw)
           [] n.op = "Not" ->
                IF params[1].t = "Bool"
                THEN NodeOut(Ok(Bool(params[1].n = 0)), writes, {}, {})
                ELSE NodeOut(Panic("unwrap_bool"), writes, {}, {})
           [] n.op = "IsNull" -> NodeOut(Ok(Bool(is_null(params[1]))), writes, {}, {})
           [] n.op = "Nop" -> NodeOut(Ok(params[1]), writes, {}, {})
           [] n.op = "Throw" -> NodeOut(Throw(params[1]), writes, {}, {})
           [] OTHER -> NodeOut(Panic("inconsistency: got select in run_node"), writes, {}, {})

(***************************************************************************)
(* generate_fire_rules: for every source node, the (target, kind) items    *)
(* in target order, a target's parameter positions before its              *)
(* precondition.                                                           *)
(***************************************************************************)
ParamDep(t, p) == [target_node |-> t, kind |-> "ParamDep", pos |-> p]
Precondition(t) == [target_node |-> t, kind |-> "Precondition", pos |-> 0]

ItemsOfTarget(g, src, t) ==
    LET n == g.nodes[t]
        all == [p \in 1..Len(n.in_edges) |-> ParamDep(t, p)]
    IN  SelectSeq(all, LAMBDA it : n.in_edges[it.pos] = src)
          \o (IF n.pre = src THEN <<Precondition(t)>> ELSE <<>>)

RECURSIVE FireRuleItems(_, _, _)
FireRuleItems(g, src, t) ==
    IF t > Len(g.nodes) THEN <<>>
    ELSE ItemsOfTarget(g, src, t) \o FireRuleItems(g, src, t + 1)

generate_fire_rules(g) == [src \in 1..Len(g.nodes) |-> FireRuleItems(g, src, 1)]

(***************************************************************************)
(* One invocation of recursively_run_graph (a frame): the locals of the    *)
(* function, plus two history fields: results (what each node last         *)
(* completed with) and starts (how many futures were pushed per node).     *)
(* A future is the node it runs and the parameters it was created with;    *)
(* a Select future carries the candidate's value; child is the frame a     *)
(* Call future has entered (0 before its first poll).                      *)
(***************************************************************************)
Future(node, params) ==
    [node |-> node, params |-> params, sel |-> FALSE, child |-> 0, acc |-> NoneV,
     todo |-> <<>>]
\* bug: the Select is run as an ordinary node on the candidate's value
SelectFuture_AsNode(node, x) ==
    [node |-> node, params |-> <<x>>, sel |-> FALSE, child |-> 0, acc |-> NoneV,
     todo |-> <<>>]

\* the future of a Select: `async move { (target_node as u32, Ok(Some(x))) }`
SelectFuture(node, x) ==
    [node |-> node, params |-> <<x>>, sel |-> TRUE, child |-> 0, acc |-> NoneV,
     todo |-> <<>>]

InitialBatch(g) ==
    LET all == [i \in 1..Len(g.nodes) |-> Future(i, <<>>)]
    IN  SelectSeq(all, LAMBDA f : g.nodes[f.node].in_edges = <<>> /\ g.nodes[f.node].pre = 0)

\* history: no candidate of the Select has produced a value yet
NoCandidate == [val |-> NoneV, pre |-> FALSE]

\* recursively_run_graph up to its loop; `depth` is recursion_depth + 1
NewFrame(gi, g, graph_params, depth, txn) ==
    [live |-> TRUE,
     txn |-> txn,
     graph |-> gi,
     params |-> graph_params,
     depth |-> depth,
     deps_satisfied |-> [i \in 1..Len(g.nodes) |->
                            [p \in 1..Len(g.nodes[i].in_edges) |-> NoneV]],
     precondition_satisfied |-> [i \in 1..Len(g.nodes) |-> g.nodes[i].pre = 0],
     futures |-> InitialBatch(g),
     ret |-> NoneV,
     results |-> [i \in 1..Len(g.nodes) |-> Unset],
     starts |-> [i \in 1..Len(g.nodes) |->
                    IF g.nodes[i].in_edges = <<>> /\ g.nodes[i].pre = 0 THEN 1 ELSE 0],
     early |-> [i \in 1..Len(g.nodes) |-> NoCandidate]]

\* the slot of an invocation that returned
DeadFrame == [live |-> FALSE, futures |-> <<>>]

\* bug: a Null precondition counts as satisfied
PreconditionValue_NullSatisfies(result) ==
    CASE result.t = "Bool" -> [valid |-> TRUE, satisfied |-> result.n = 1]
      [] result.t = "Null" -> [valid |-> TRUE, satisfied |-> TRUE]
      [] result.t = "None" -> [valid |-> TRUE, satisfied |-> TRUE]
      [] OTHER -> [valid |-> FALSE, satisfied |-> FALSE]

\* the match on the result of a precondition node: Some(Bool(x)) => x,
\* Some(Null(_)) => false, None => true, anything else panics
PreconditionValue(result) ==
    CASE result.t = "Bool" -> [valid |-> TRUE, satisfied |-> result.n = 1]
      [] result.t = "Null" -> [valid |-> TRUE, satisfied |-> FALSE]
      [] result.t = "None" -> [valid |-> TRUE, satisfied |-> TRUE]
      [] OTHER -> [valid |-> FALSE, satisfied |-> FALSE]

\* the first loop over to_fire: store the result, evaluate preconditions
RECURSIVE FirstLoop(_, _, _, _)
FirstLoop(st, items, k, result) ==
    IF k > Len(items) \/ st.panic # "" THEN st
    ELSE LET item == items[k]
             t == item.target_node
         IN  IF item.kind = "ParamDep"
             THEN IF ~IsSome(result)
                  THEN [st EXCEPT !.panic = "parameter dependency does not produce a value"]
                  ELSE IF item.pos > Len(st.deps[t])
                  THEN [st EXCEPT !.panic = "index out of bounds"]
                  ELSE FirstLoop([st EXCEPT !.deps[t][item.pos] = result], items, k + 1, result)
             ELSE IF PreconditionValue(result).valid
                  THEN FirstLoop([st EXCEPT !.pre[t] = PreconditionValue(result).satisfied],
                                 items, k + 1, result)
                  ELSE [st EXCEPT !.panic = "invalid precondition"]

FirstSome(ds) == ds[CHOOSE p \in 1..Len(ds) : IsSome(ds[p]) /\ \A q \in 1..(p - 1) : ~IsSome(ds[q])]

\* whether the second loop pushes a future for a non-Select target
DepsComplete(ds) == \A p \in 1..Len(ds) : IsSome(ds[p])

\* the second loop over to_fire: push the targets that became ready
RECURSIVE SecondLoop(_, _, _, _)
SecondLoop(st, items, k, g) ==
    IF k > Len(items) \/ st.err # "" THEN st
    ELSE LET t == items[k].target_node
             ds == st.deps[t]
         IN  IF ~st.pre[t] THEN SecondLoop(st, items, k + 1, g)
             ELSE IF is_select(g.nodes[t])
             THEN IF ds = <<>>
                  THEN [st EXCEPT !.err = "BothSelectCandidatesFired"]
                  ELSE IF \E p \in 1..Len(ds) : IsSome(ds[p])
                  THEN SecondLoop([st EXCEPT !.deps[t] = <<>>,
                                             !.futures = Append(@, SelectFuture(t, FirstSome(ds))),
                                             !.starts[t] = @ + 1],
                                  items, k + 1, g)
                  ELSE SecondLoop(st, items, k + 1, g)
             ELSE IF DepsComplete(ds)
                  THEN SecondLoop([st EXCEPT !.deps[t] = <<>>,
                                             !.futures = Append(@, Future(t, ds)),
                                             !.starts[t] = @ + 1],
                                  items, k + 1, g)
                  ELSE SecondLoop(st, items, k + 1, g)

(***************************************************************************)
(* The body of the loop of recursively_run_graph after select_all          *)
(* returned (node_index, Ok(result)) and `futures` was set to the          *)
(* remaining ones: the frame after the iteration, and how it ended         *)
(* ("" to go on, an ExecError, or "panic").                                *)
(***************************************************************************)
\* bug: `ret` follows the node that completed last, whichever it is
RetAfter_AnyNode(ret, output, node_index, result) == result

\* `if Some(node_index) == g.output { ret = result.clone(); }`
RetAfter(ret, output, node_index, result) == IF node_index = output THEN result ELSE ret

\* a Select of the graph has two candidate positions whose sources produced a value
MultiSelect(g, results) ==
    \E t \in 1..Len(g.nodes) :
        /\ is_select(g.nodes[t])
        /\ Cardinality({p \in 1..Len(g.nodes[t].in_edges) :
                            results[g.nodes[t].in_edges[p]].kind = "Ok"
                            /\ IsSome(results[g.nodes[t].in_edges[p]].val)}) >= 2

\* history: per Select, the value of the candidate that produced a value first,
\* and whether the Select's precondition was satisfied in that iteration
EarlyAfter(early, g, node_index, result, pre) ==
    [t \in 1..Len(g.nodes) |->
        IF /\ is_select(g.nodes[t])
           /\ \E p \in 1..Len(g.nodes[t].in_edges) : g.nodes[t].in_edges[p] = node_index
           /\ IsSome(result)
           /\ early[t] = NoCandidate
        THEN [val |-> result, pre |-> pre[t]]
        ELSE early[t]]

Propagate(fr, g, node_index, result) ==
    LET to_fire == generate_fire_rules(g)[node_index]
        s1 == FirstLoop([deps |-> fr.deps_satisfied, pre |-> fr.precondition_satisfied,
                         panic |-> ""], to_fire, 1, result)
        s2 == SecondLoop([deps |-> s1.deps, pre |-> s1.pre, futures |-> fr.futures,
                          starts |-> fr.starts, err |-> ""], to_fire, 1, g)
        out == IF s1.panic # "" THEN Panic(s1.panic)
               ELSE IF s2.err # "" THEN Err(s2.err)
               ELSE Ok(NoneV)
        refire == \E k \in 1..Len(to_fire) :
                      /\ to_fire[k].kind = "ParamDep"
                      /\ is_select(g.nodes[to_fire[k].target_node])
                      /\ fr.starts[to_fire[k].target_node] >= 1
                      /\ IsSome(result)
    IN  [frame |-> [fr EXCEPT !.ret = RetAfter(@, g.output, node_index, result),
                              !.deps_satisfied = s2.deps,
                              !.precondition_satisfied = s2.pre,
                              !.futures = s2.futures,
                              !.starts = s2.starts,
                              !.results[node_index] = Ok(result),
                              !.early = EarlyAfter(@, g, node_index, result, s1.pre)],
         out |-> out,
         refire |-> refire,
         multi |-> MultiSelect(g, [fr.results EXCEPT ![node_index] = Ok(result)])]

(***************************************************************************)
(* The scripts the executor runs.                                          *)
(***************************************************************************)
\* exec_test.rs basic_exec, second script: .item.a
PointGet ==
    [graphs |-> <<Graph(<<Node("LoadParam", 1, "", <<>>, 0, "Map"),
                          Node("GetField", 0, "item", <<1>>, 0, "Table"),
                          Node("GetField", 0, "a", <<2>>, 0, "Int64")>>, 3)>>,
     consts |-> <<>>]

\* exec_test.rs basic_exec, first script: read .item.a and write .item.a
WriteRead ==
    [graphs |-> <<Graph(<<Node("LoadParam", 1, "", <<>>, 0, "Map"),
                          Node("GetField", 0, "item", <<1>>, 0, "Table"),
                          Node("GetField", 0, "a", <<2>>, 0, "Int64"),
                          Node("LoadConst", 1, "", <<>>, 0, "Int64"),
                          Node("InsertIntoTable", 0, "a", <<4, 2>>, 0, "")>>, 3)>>,
     consts |-> <<Int64(42)>>]

\* write .item.a, then throw what .item.b holds
WriteThenThrow ==
    [graphs |-> <<Graph(<<Node("LoadParam", 1, "", <<>>, 0, "Map"),
                          Node("GetField", 0, "item", <<1>>, 0, "Table"),
                          Node("LoadConst", 1, "", <<>>, 0, "Int64"),
                          Node("InsertIntoTable", 0, "a", <<3, 2>>, 0, ""),
                          Node("GetField", 0, "b", <<2>>, 0, "String"),
                          Node("Throw", 0, "", <<5>>, 0, "")>>, 0)>>,
     consts |-> <<Int64(7)>>]

\* two Throw nodes behind two independent reads
ThrowRace ==
    [graphs |-> <<Graph(<<Node("LoadParam", 1, "", <<>>, 0, "Map"),
                          Node("GetField", 0, "item", <<1>>, 0, "Table"),
                          Node("GetField", 0, "b", <<2>>, 0, "String"),
                          Node("GetField", 0, "c", <<2>>, 0, "String"),
                          Node("Throw", 0, "", <<3>>, 0, ""),
                          Node("Throw", 0, "", <<4>>, 0, "")>>, 0)>>,
     consts |-> <<>>]

\* if param then 1 else 2: two gated candidates merged by a Select
SelectOne ==
    [graphs |-> <<Graph(<<Node("LoadParam", 2, "", <<>>, 0, "Bool"),
                          Node("Not", 0, "", <<1>>, 0, "Bool"),
                          Node("LoadConst", 1, "", <<>>, 1, "Int64"),
                          Node("LoadConst", 2, "", <<>>, 2, "Int64"),
                          Node("Select", 0, "", <<3, 4>>, 0, "Int64")>>, 5)>>,
     consts |-> <<Int64(1), Int64(2)>>]

\* a Select both of whose candidates produce a value
SelectBoth ==
    [graphs |-> <<Graph(<<Node("LoadParam", 1, "", <<>>, 0, "Map"),
                          Node("GetField", 0, "item", <<1>>, 0, "Table"),
                          Node("GetField", 0, "b", <<2>>, 0, "String"),
                          Node("GetField", 0, "c", <<2>>, 0, "String"),
                          Node("Select", 0, "", <<3, 4>>, 0, "String")>>, 5)>>,
     consts |-> <<>>]

\* the same, the Select gated by a precondition
SelectGated ==
    [graphs |-> <<Graph(<<Node("LoadParam", 1, "", <<>>, 0, "Map"),
                          Node("GetField", 0, "item", <<1>>, 0, "Table"),
                          Node("GetField", 0, "b", <<2>>, 0, "String"),
                          Node("GetField", 0, "c", <<2>>, 0, "String"),
                          Node("LoadParam", 2, "", <<>>, 0, "Bool"),
                          Node("Select", 0, "", <<3, 4>>, 5, "String")>>, 6)>>,
     consts |-> <<>>]

\* an output node gated by a precondition
GatedOutput ==
    [graphs |-> <<Graph(<<Node("LoadParam", 2, "", <<>>, 0, "Bool"),
                          Node("LoadConst", 1, "", <<>>, 1, "Int64")>>, 2)>>,
     consts |-> <<Int64(5)>>]

\* a graph that calls itself
Recurse ==
    [graphs |-> <<Graph(<<Node("LoadParam", 1, "", <<>>, 0, "Map"),
                          Node("Call", 1, "", <<1>>, 0, "Map")>>, 2)>>,
     consts |-> <<>>]

\* two concurrent calls of a sub-graph
TwoCalls ==
    [graphs |-> <<Graph(<<Node("LoadConst", 1, "", <<>>, 0, "Int64"),
                          Node("Call", 2, "", <<1>>, 0, "Int64"),
                          Node("LoadConst", 2, "", <<>>, 0, "Int64"),
                          Node("Call", 2, "", <<3>>, 0, "Int64"),
                          Node("Eq", 0, "", <<2, 4>>, 0, "Bool")>>, 5),
                  Graph(<<Node("LoadParam", 1, "", <<>>, 0, "Int64"),
                          Node("Nop", 0, "", <<1>>, 0, "Int64")>>, 2)>>,
     consts |-> <<Int64(1), Int64(2)>>]

\* one source node at two parameter positions
DupEdge ==
    [graphs |-> <<Graph(<<Node("LoadConst", 1, "", <<>>, 0, "Int64"),
                          Node("Eq", 0, "", <<1, 1>>, 0, "Bool")>>, 2)>>,
     consts |-> <<Int64(1)>>]

\* write .item.a only
WriteA ==
    [graphs |-> <<Graph(<<Node("LoadParam", 1, "", <<>>, 0, "Map"),
                          Node("GetField", 0, "item", <<1>>, 0, "Table"),
                          Node("LoadConst", 1, "", <<>>, 0, "Int64"),
                          Node("InsertIntoTable", 0, "a", <<3, 2>>, 0, "")>>, 0)>>,
     consts |-> <<Int64(7)>>]

\* exec_test.rs set_queries, first script, the member loaded as a constant
InsertMember(m) ==
    [graphs |-> <<Graph(<<Node("LoadParam", 1, "", <<>>, 0, "Map"),
                          Node("LoadConst", 1, "", <<>>, 0, "Table"),
                          Node("GetField", 0, "some_item", <<1>>, 0, "Set"),
                          Node("InsertIntoSet", 0, "", <<2, 3>>, 0, "")>>, 0)>>,
     consts |-> <<m>>]

\* exec_test.rs set_queries, second script: some_item[k].f
ReadMember(k, f) ==
    [graphs |-> <<Graph(<<Node("LoadParam", 1, "", <<>>, 0, "Map"),
                          Node("LoadConst", 1, "", <<>>, 0, "String"),
                          Node("GetField", 0, "some_item", <<1>>, 0, "Set"),
                          Node("GetSetElement", 0, "", <<2, 3>>, 0, "Table"),
                          Node("GetField", 0, f, <<4>>, 0, FieldTy(f))>>, 5)>>,
     consts |-> <<StringV(k)>>]

\* exec_test.rs set_queries, third script: delete some_item[k]
DeleteMember(k) ==
    [graphs |-> <<Graph(<<Node("LoadParam", 1, "", <<>>, 0, "Map"),
                          Node("LoadConst", 1, "", <<>>, 0, "String"),
                          Node("GetField", 0, "some_item", <<1>>, 0, "Set"),
                          Node("DeleteFromSet", 0, "", <<2, 3>>, 0, "")>>, 0)>>,
     consts |-> <<StringV(k)>>]

\* the second parameter of run_graph feeds an InsertIntoTable, a Call and a
\* GetSetElement whose element is then read
NullChain ==
    [graphs |-> <<Graph(<<Node("LoadParam", 1, "", <<>>, 0, "Map"),
                          Node("GetField", 0, "item", <<1>>, 0, "Table"),
                          Node("LoadParam", 2, "", <<>>, 0, "Int64"),
                          Node("InsertIntoTable", 0, "a", <<3, 2>>, 0, ""),
                          Node("Call", 2, "", <<3>>, 0, "Int64"),
                          Node("GetField", 0, "some_item", <<1>>, 0, "Set"),
                          Node("GetSetElement", 0, "", <<3, 6>>, 0, "Table"),
                          Node("GetField", 0, "name", <<7>>, 0, "String")>>, 8),
                  Graph(<<Node("LoadParam", 1, "", <<>>, 0, "Int64"),
                          Node("Nop", 0, "", <<1>>, 0, "Int64")>>, 2)>>,
     consts |-> <<>>]

\* a write gated by the second parameter of run_graph, and a read gated by
\* the write
GatedWrite ==
    [graphs |-> <<Graph(<<Node("LoadParam", 1, "", <<>>, 0, "Map"),
                          Node("GetField", 0, "item", <<1>>, 0, "Table"),
                          Node("LoadParam", 2, "", <<>>, 0, "Bool"),
                          Node("LoadConst", 1, "", <<>>, 0, "Int64"),
                          Node("InsertIntoTable", 0, "a", <<4, 2>>, 3, ""),
                          Node("GetField", 0, "b", <<2>>, 5, "String")>>, 6)>>,
     consts |-> <<Int64(7)>>]

\* the members the scripts insert
Member(id, name, n) ==
    FreshTable("Member", [x \in {"id", "name", "n"} |->
                             CASE x = "id" -> StringV(id) [] x = "name" -> StringV(name)
                               [] OTHER -> n])

Member1 == Member("test_id", "test_name", Int64(7))
Member2 == Member("test_id", "renamed", Null("Int64"))
Member3 == Member("other_id", "other", Int64(1))

(***************************************************************************)
(* A scenario: the script, the parameters of run_graph (the root map and   *)
(* a second, script-specific one), the store's contents before the call,   *)
(* the backend's read-your-writes behaviour and the installed hooks.       *)
(***************************************************************************)
\* the sub-graph of a Reduce: Null when the element is the constant at
\* `stop`, else the element
StopAt(stop) ==
    Graph(<<Node("LoadParam", 3, "", <<>>, 0, "Int64"),
            Node("LoadConst", stop, "", <<>>, 0, "Int64"),
            Node("Eq", 0, "", <<1, 2>>, 0, "Bool"),
            Node("Not", 0, "", <<3>>, 0, "Bool"),
            Node("LoadParam", 1, "", <<>>, 3, "Int64"),
            Node("Nop", 0, "", <<1>>, 4, "Int64"),
            Node("Select", 0, "", <<5, 6>>, 0, "Int64")>>, 7)

\* reduce over the list [1, 2, 3], built back to front, from 0, with the
\* second parameter of the run as subgraph_param
ReduceList(marker) ==
    [graphs |-> <<Graph(<<Node("CreateList", 0, "Int64", <<>>, 0, "List"),
                          Node("LoadConst", 1, "", <<>>, 0, "Int64"),
                          Node("PrependToList", 0, "", <<2, 1>>, 0, "List"),
                          Node("LoadConst", 2, "", <<>>, 0, "Int64"),
                          Node("PrependToList", 0, "", <<4, 3>>, 0, "List"),
                          Node("LoadConst", 3, "", <<>>, 0, "Int64"),
                          Node("PrependToList", 0, "", <<6, 5>>, 0, "List"),
                          Node("LoadParam", 2, "", <<>>, 0, "Int64"),
                          Node("LoadConst", 4, "", <<>>, 0, "Int64"),
                          Node("Reduce", 2, "", <<8, 9, 7>>, 0, "Int64")>>, 10),
                  StopAt(5)>>,
     consts |-> <<Int64(3), Int64(2), Int64(1), Int64(0), Int64(marker)>>]

\* the sub-graph of a Reduce over a set: the id of the member
MemberId ==
    Graph(<<Node("LoadParam", 3, "", <<>>, 0, "Table"),
            Node("GetField", 0, "id", <<1>>, 0, "String")>>, 2)

\* reduce over the members of some_item between two primary keys
ReduceSet(start, end) ==
    [graphs |-> <<Graph(<<Node("LoadParam", 1, "", <<>>, 0, "Map"),
                          Node("GetField", 0, "some_item", <<1>>, 0, "Set"),
                          Node("LoadParam", 2, "", <<>>, 0, "String"),
                          Node("LoadConst", 1, "", <<>>, 0, "String"),
                          Node("LoadConst", 2, "", <<>>, 0, "String"),
                          Node("LoadConst", 3, "", <<>>, 0, "String"),
                          Node("Reduce", 2, "range", <<3, 4, 2, 5, 6>>, 0, "String")>>, 7),
                  MemberId>>,
     consts |-> <<StringV("none"), start, end>>]

\* reduce over all the members of some_item
ReduceSetAll ==
    [graphs |-> <<Graph(<<Node("LoadParam", 1, "", <<>>, 0, "Map"),
                          Node("GetField", 0, "some_item", <<1>>, 0, "Set"),
                          Node("LoadParam", 2, "", <<>>, 0, "String"),
                          Node("LoadConst", 1, "", <<>>, 0, "String"),
                          Node("Reduce", 2, "", <<3, 4, 2>>, 0, "String")>>, 5),
                  MemberId>>,
     consts |-> <<StringV("none")>>]

\* item.tags = a set literal
ClearTags(literal) ==
    [graphs |-> <<Graph(<<Node("LoadParam", 1, "", <<>>, 0, "Map"),
                          Node("GetField", 0, "item", <<1>>, 0, "Table"),
                          Node("LoadConst", 1, "", <<>>, 0, "Set"),
                          Node("InsertIntoTable", 0, "tags", <<3, 2>>, 0, "")>>, 0)>>,
     consts |-> <<literal>>]

\* some_item[k].tags = a set literal
ClearTagsOf(k, literal) ==
    [graphs |-> <<Graph(<<Node("LoadParam", 1, "", <<>>, 0, "Map"),
                          Node("GetField", 0, "some_item", <<1>>, 0, "Set"),
                          Node("LoadConst", 2, "", <<>>, 0, "String"),
                          Node("GetSetElement", 0, "", <<3, 2>>, 0, "Table"),
                          Node("LoadConst", 1, "", <<>>, 0, "Set"),
                          Node("InsertIntoTable", 0, "tags", <<5, 4>>, 0, "")>>, 0)>>,
     consts |-> <<literal, StringV(k)>>]

\* the set literals: {} and {zed}
NoMembers == FreshSet("Member", <<>>)
OneMember ==
    FreshSet("Member", [pk \in {serialize_for_key_component(StringV("zed"))} |->
                           Member("zed", "z", Int64(3))])

\* an op on two constants: the first parameter and the table or set it
\* acts on
OnConst(op, id, ty, first, target) ==
    [graphs |-> <<Graph(<<Node("LoadConst", 1, "", <<>>, 0, first.t),
                          Node("LoadConst", 2, "", <<>>, 0, target.t),
                          Node(op, 0, id, <<1, 2>>, 0, ty)>>,
                        IF ty = "" THEN 0 ELSE 3)>>,
     consts |-> <<first, target>>]

\* reduce over a set literal
ReduceLiteral(literal) ==
    [graphs |-> <<Graph(<<Node("LoadParam", 2, "", <<>>, 0, "String"),
                          Node("LoadConst", 1, "", <<>>, 0, "String"),
                          Node("LoadConst", 2, "", <<>>, 0, "Set"),
                          Node("Reduce", 2, "", <<1, 2, 3>>, 0, "String")>>, 4),
                  MemberId>>,
     consts |-> <<StringV("none"), literal>>]

\* insert the member some_item[k] into a set literal
InsertResident(k, literal) ==
    [graphs |-> <<Graph(<<Node("LoadParam", 1, "", <<>>, 0, "Map"),
                          Node("GetField", 0, "some_item", <<1>>, 0, "Set"),
                          Node("LoadConst", 1, "", <<>>, 0, "String"),
                          Node("GetSetElement", 0, "", <<3, 2>>, 0, "Table"),
                          Node("LoadConst", 2, "", <<>>, 0, "Set"),
                          Node("InsertIntoSet", 0, "", <<4, 5>>, 0, "")>>, 0)>>,
     consts |-> <<StringV(k), literal>>]

\* a table literal of type Item
ItemLiteral ==
    FreshTable("Item", [x \in {"a", "b", "c"} |->
                           IF x = "a" THEN Int64(1) ELSE StringV(x)])

\* (l + r) - r
AddSub(l, r) ==
    [graphs |-> <<Graph(<<Node("LoadConst", 1, "", <<>>, 0, "Int64"),
                          Node("LoadConst", 2, "", <<>>, 0, "Int64"),
                          Node("Add", 0, "", <<1, 2>>, 0, "Int64"),
                          Node("Sub", 0, "", <<3, 2>>, 0, "Int64")>>, 4)>>,
     consts |-> <<Int64(l), Int64(r)>>]

\* the Int64 values the arithmetic is run on
EdgeInts == <<MinInt, MinInt + 1, -1, 0, 1, 42, MaxInt>>

\* a node that takes the same source as its parameter and as its precondition
DupPre ==
    [graphs |-> <<Graph(<<Node("LoadParam", 2, "", <<>>, 0, "Bool"),
                          Node("Not", 0, "", <<1>>, 1, "Bool")>>, 2)>>,
     consts |-> <<>>]

\* a member as BuildTable makes it from a map with id and name only: every
\* other field of the type is a Null of the field's type
MemberNulls ==
    FreshTable("Member", [x \in {"id", "inner", "n", "name", "tags"} |->
                             CASE x = "id" -> StringV("test_id")
                               [] x = "name" -> StringV("fresh")
                               [] x = "n" -> Null("Int64")
                               [] x = "inner" -> Null("Item")
                               [] OTHER -> Null("Set<Tag>")])

\* some_item[k].tags[t].f
ReadTag(k, t, f) ==
    [graphs |-> <<Graph(<<Node("LoadParam", 1, "", <<>>, 0, "Map"),
                          Node("LoadConst", 1, "", <<>>, 0, "String"),
                          Node("GetField", 0, "some_item", <<1>>, 0, "Set"),
                          Node("GetSetElement", 0, "", <<2, 3>>, 0, "Table"),
                          Node("GetField", 0, "tags", <<4>>, 0, "Set"),
                          Node("LoadConst", 2, "", <<>>, 0, "String"),
                          Node("GetSetElement", 0, "", <<6, 5>>, 0, "Table"),
                          Node("GetField", 0, f, <<7>>, 0, FieldTy(f))>>, 8)>>,
     consts |-> <<StringV(k), StringV(t)>>]

\* some_item[k].inner.f
ReadInner(k, f) ==
    [graphs |-> <<Graph(<<Node("LoadParam", 1, "", <<>>, 0, "Map"),
                          Node("LoadConst", 1, "", <<>>, 0, "String"),
                          Node("GetField", 0, "some_item", <<1>>, 0, "Set"),
                          Node("GetSetElement", 0, "", <<2, 3>>, 0, "Table"),
                          Node("GetField", 0, "inner", <<4>>, 0, "Table"),
                          Node("GetField", 0, f, <<5>>, 0, FieldTy(f))>>, 6)>>,
     consts |-> <<StringV(k)>>]

Scenario(script, p2, kv0, ryw, sleep_fn, yield_fn) ==
    [script |-> script, params |-> <<RootMap, p2>>, kv0 |-> kv0, ryw |-> ryw,
     sleep_fn |-> sleep_fn, yield_fn |-> yield_fn]

StoreA == [k \in {KeyA} |-> Int64(42)]
StoreB == [k \in {KeyB} |-> StringV("x")]
StoreBC == [k \in {KeyB, KeyC} |-> IF k = KeyB THEN StringV("x") ELSE StringV("y")]

\* what a store holds of the member `m` of the set at `path`: its fast-scan
\* key, its table's own key and its non-null fields
Entries(path, m) ==
    {<<set_fast_scan_prefix(path) \o serialize_for_key_component(m.f["id"]),
       EmptyValue>>,
     <<enter_set(path, m.f["id"]), EmptyValue>>}
        \cup {<<enter_field(enter_set(path, m.f["id"]), x), m.f[x]>> :
                 x \in {y \in DOMAIN m.f : ~is_null(m.f[y])}}

\* the store that holds the entries
StoreFrom(entries) ==
    [k \in {e[1] : e \in entries} |-> (CHOOSE e \in entries : e[1] = k)[2]]

\* a store with three members of some_item, a member of a set stored
\* before it and one of a set stored after it, and the field a of item
StoreSets ==
    StoreFrom({<<KeyA, Int64(42)>>}
                  \cup Entries(<<StorageKeyOf("some_item")>>, Member1)
                  \cup Entries(<<StorageKeyOf("some_item")>>, Member3)
                  \cup Entries(<<StorageKeyOf("some_item")>>, Member("zed", "z", Int64(3)))
                  \cup Entries(<<StorageKeyOf("some_item") - 1>>, Member3)
                  \cup Entries(<<StorageKeyOf("some_item") + 1>>, Member1))

\* a store where item and the two members of some_item each have a set
\* `tags` with members, between the fields `lo` and `hi`
\* the set `tags` of a table with two members, between the fields lo and hi
TagsOf(table) ==
    {<<enter_field(table, "tags"), EmptyValue>>,
     <<enter_field(table, "lo"), StringV("l")>>,
     <<enter_field(table, "hi"), StringV("h")>>}
        \cup Entries(enter_field(table, "tags"), Member1)
        \cup Entries(enter_field(table, "tags"), Member3)

StoreTags ==
    StoreFrom({<<KeyA, Int64(42)>>}
                  \cup Entries(<<StorageKeyOf("some_item")>>, Member1)
                  \cup Entries(<<StorageKeyOf("some_item")>>, Member3)
                  \cup TagsOf(<<>>)
                  \cup TagsOf(enter_set(<<StorageKeyOf("some_item")>>, StringV("test_id")))
                  \cup TagsOf(enter_set(<<StorageKeyOf("some_item")>>, StringV("other_id"))))

\* StoreTags, and under the member test_id of some_item a table `inner` with
\* its field a
StoreNested ==
    StoreFrom({<<k, StoreTags[k]>> : k \in DOMAIN StoreTags}
                  \cup {<<enter_field(enter_set(<<StorageKeyOf("some_item")>>,
                                               StringV("test_id")), "inner"),
                          EmptyValue>>,
                        <<enter_field(enter_field(enter_set(<<StorageKeyOf("some_item")>>,
                                                           StringV("test_id")), "inner"),
                                      "a"),
                          Int64(5)>>})

\* a store where some_item holds, beside test_id and other_id, two members
\* whose primary key bytes extend those of test_id, and where a set is stored
\* before some_item and one after it
StorePrefixed ==
    StoreFrom({<<KeyA, Int64(42)>>}
                  \cup Entries(<<StorageKeyOf("some_item")>>, Member1)
                  \cup Entries(<<StorageKeyOf("some_item")>>, Member3)
                  \cup Entries(<<StorageKeyOf("some_item")>>, Member("test_id+", "plus", Int64(2)))
                  \cup Entries(<<StorageKeyOf("some_item")>>, Member("test_id0+", "nul", Int64(3)))
                  \cup Entries(<<StorageKeyOf("some_item") - 1>>, Member1)
                  \cup Entries(<<StorageKeyOf("some_item") + 1>>, Member1))

Scenarios ==
    << Scenario(PointGet, NoneV, EmptyStore, FALSE, FALSE, FALSE),
       Scenario(PointGet, NoneV, StoreA, TRUE, TRUE, TRUE),
       Scenario(WriteRead, NoneV, EmptyStore, FALSE, FALSE, FALSE),
       Scenario(WriteRead, NoneV, EmptyStore, TRUE, FALSE, FALSE),
       Scenario(WriteThenThrow, NoneV, EmptyStore, FALSE, FALSE, FALSE),
       Scenario(WriteThenThrow, NoneV, StoreB, TRUE, FALSE, FALSE),
       Scenario(ThrowRace, NoneV, StoreB, FALSE, FALSE, FALSE),
       Scenario(SelectOne, Bool(TRUE), EmptyStore, FALSE, FALSE, FALSE),
       Scenario(SelectOne, Bool(FALSE), EmptyStore, FALSE, TRUE, FALSE),
       Scenario(SelectBoth, NoneV, StoreB, FALSE, FALSE, FALSE),
       Scenario(SelectGated, Bool(TRUE), StoreBC, FALSE, FALSE, FALSE),
       Scenario(GatedOutput, Bool(TRUE), EmptyStore, FALSE, FALSE, FALSE),
       Scenario(GatedOutput, Bool(FALSE), EmptyStore, FALSE, FALSE, FALSE),
       Scenario(GatedOutput, Null("Bool"), EmptyStore, FALSE, FALSE, FALSE),
       Scenario(Recurse, NoneV, EmptyStore, FALSE, FALSE, TRUE),
       Scenario(TwoCalls, NoneV, EmptyStore, FALSE, FALSE, TRUE),
       Scenario(DupEdge, NoneV, EmptyStore, FALSE, FALSE, FALSE),
       Scenario(WriteA, NoneV, EmptyStore, FALSE, FALSE, FALSE),
       Scenario(InsertMember(Member1), NoneV, EmptyStore, FALSE, FALSE, FALSE),
       Scenario(InsertMember(Member2), NoneV, EmptyStore, FALSE, FALSE, FALSE),
       Scenario(InsertMember(Member3), NoneV, EmptyStore, FALSE, FALSE, FALSE),
       Scenario(DeleteMember("test_id"), NoneV, EmptyStore, FALSE, FALSE, FALSE),
       Scenario(ReadMember("test_id", "id"), NoneV, EmptyStore, FALSE, FALSE, FALSE),
       Scenario(ReadMember("test_id", "name"), NoneV, EmptyStore, FALSE, FALSE, FALSE),
       Scenario(ReadMember("test_id", "n"), NoneV, EmptyStore, FALSE, FALSE, FALSE),
       Scenario(ReadMember("other_id", "name"), NoneV, EmptyStore, FALSE, FALSE, FALSE),
       Scenario(NullChain, Null("Int64"), EmptyStore, FALSE, FALSE, FALSE),
       Scenario(NullChain, Int64(7), EmptyStore, FALSE, FALSE, FALSE),
       Scenario(GatedWrite, Bool(TRUE), StoreB, FALSE, FALSE, FALSE),
       Scenario(GatedWrite, Bool(FALSE), StoreB, FALSE, FALSE, FALSE),
       Scenario(GatedWrite, Null("Bool"), StoreB, FALSE, FALSE, FALSE),
       Scenario(ReduceList(1), Null("Int64"), EmptyStore, FALSE, FALSE, FALSE),
       Scenario(ReduceList(2), Null("Int64"), EmptyStore, FALSE, FALSE, TRUE),
       Scenario(ReduceList(9), Null("Int64"), EmptyStore, FALSE, FALSE, FALSE),
       Scenario(ReduceSetAll, StringV("p"), StoreSets, FALSE, FALSE, FALSE),
       Scenario(ReduceSet(Null("String"), Null("String")), StringV("p"), StoreSets,
                FALSE, FALSE, FALSE),
       Scenario(ReduceSet(StringV("other_id"), Null("String")), StringV("p"), StoreSets,
                FALSE, FALSE, FALSE),
       Scenario(ReduceSet(Null("String"), StringV("other_id")), StringV("p"), StoreSets,
                FALSE, FALSE, FALSE),
       Scenario(ReduceSet(StringV("test_id"), StringV("zed")), StringV("p"), StoreSets,
                TRUE, FALSE, FALSE),
       Scenario(ReduceSet(StringV("other_id"), StringV("other_id")), StringV("p"), StoreSets,
                FALSE, FALSE, FALSE),
       Scenario(ClearTags(NoMembers), NoneV, StoreTags, FALSE, FALSE, FALSE),
       Scenario(ClearTags(OneMember), NoneV, StoreTags, TRUE, FALSE, FALSE),
       Scenario(ClearTagsOf("test_id", NoMembers), NoneV, StoreTags, FALSE, FALSE, FALSE),
       Scenario(ClearTagsOf("other_id", OneMember), NoneV, StoreTags, FALSE, FALSE, FALSE),
       Scenario(OnConst("GetSetElement", "", "Table", StringV("zed"), OneMember), NoneV,
                StoreSets, FALSE, FALSE, FALSE),
       Scenario(OnConst("InsertIntoSet", "", "", Member1, OneMember), NoneV,
                StoreSets, FALSE, FALSE, FALSE),
       Scenario(OnConst("DeleteFromSet", "", "", StringV("zed"), OneMember), NoneV,
                StoreSets, TRUE, FALSE, FALSE),
       Scenario(OnConst("InsertIntoTable", "a", "", Int64(7), ItemLiteral), NoneV,
                StoreSets, FALSE, FALSE, FALSE),
       Scenario(OnConst("InsertIntoTable", "a", "", Null("Int64"), ItemLiteral), NoneV,
                StoreSets, FALSE, FALSE, FALSE),
       Scenario(ReduceLiteral(OneMember), StringV("p"), StoreSets, FALSE, FALSE, FALSE),
       Scenario(ReduceLiteral(NoMembers), StringV("p"), StoreSets, FALSE, FALSE, FALSE),
       Scenario(InsertResident("test_id", OneMember), NoneV, StoreSets, FALSE, FALSE, FALSE),
       Scenario(InsertResident("nobody", NoMembers), NoneV, StoreA, FALSE, FALSE, FALSE),
       Scenario(DupPre, Bool(TRUE), EmptyStore, FALSE, FALSE, FALSE),
       Scenario(DupPre, Bool(FALSE), EmptyStore, FALSE, FALSE, FALSE),
       Scenario(InsertMember(MemberNulls), NoneV, StoreNested, FALSE, FALSE, FALSE),
       Scenario(ReadTag("test_id", "other_id", "name"), NoneV, StoreNested, FALSE, FALSE, FALSE),
       Scenario(ReadInner("test_id", "a"), NoneV, StoreNested, FALSE, FALSE, FALSE),
       Scenario(ReadMember("test_id", "n"), NoneV, StoreNested, FALSE, FALSE, FALSE),
       Scenario(ReadMember("test_id", "name"), NoneV, StoreNested, FALSE, FALSE, FALSE),
       Scenario(DeleteMember("test_id"), NoneV, StorePrefixed, FALSE, FALSE, FALSE),
       Scenario(DeleteMember("test_id+"), NoneV, StorePrefixed, FALSE, FALSE, FALSE),
       Scenario(DeleteMember("other_id"), NoneV, StorePrefixed, TRUE, FALSE, FALSE) >>
        \o [k \in 1..(Len(EdgeInts) * Len(EdgeInts)) |->
               Scenario(AddSub(EdgeInts[((k - 1) \div Len(EdgeInts)) + 1],
                               EdgeInts[((k - 1) % Len(EdgeInts)) + 1]),
                        NoneV, EmptyStore, FALSE, FALSE, FALSE)]

\* the scripts that are run one after the other on one store: those on the
\* table `item`, and those on the set `some_item`
TableScripts == {PointGet, WriteRead, WriteThenThrow, WriteA}
SetScripts ==
    {InsertMember(Member1), InsertMember(Member2), InsertMember(Member3),
     DeleteMember("test_id"), ReadMember("test_id", "id"), ReadMember("test_id", "name"),
     ReadMember("test_id", "n"), ReadMember("other_id", "name")}

\* the reads at and below the member that InsertMember(MemberNulls) overwrites
BelowScripts ==
    {ReadTag("test_id", "other_id", "name"), ReadInner("test_id", "a"),
     ReadMember("test_id", "n"), ReadMember("test_id", "name")}

\* whether the script has a node with an effect on the store
IsWriter(script) ==
    \E g \in 1..Len(script.graphs) : \E j \in 1..Len(script.graphs[g].nodes) :
        script.graphs[g].nodes[j].op \in {"InsertIntoTable", "InsertIntoSet", "DeleteFromSet"}

\* how many committed effects a sequence of runs may accumulate
MaxWrites == 2

\* whether scenario `next` may be run after scenario `sc` on the same store
MayFollow(sc, next) ==
    /\ ~sc.ryw /\ ~next.ryw
    /\ \/ /\ sc.kv0 = EmptyStore /\ next.kv0 = EmptyStore
          /\ \/ sc.script \in TableScripts /\ next.script \in TableScripts
             \/ sc.script \in SetScripts /\ next.script \in SetScripts
       \/ /\ sc.kv0 = StoreNested /\ next.kv0 = StoreNested
          /\ sc.script = InsertMember(MemberNulls)
          /\ next.script \in BelowScripts

(***************************************************************************)
(* State of one run_graph call.                                            *)
(*   scen     the scenario (fixed)                                         *)
(*   kv       the store's committed contents                               *)
(*   pc       where run_graph is: "begin" (top of the loop), "running"     *)
(*            (inside recursively_run_graph), "sleep" (awaiting sleep_fn), *)
(*            "done" (returned or unwound)                                 *)
(*   i        the loop variable of `for i in 0..10`                        *)
(*   txns     every transaction begun so far; the last one is `txn`        *)
(*   frames   the live invocations of recursively_run_graph, root first    *)
(*   outcome  what run_graph returned                                      *)
(*   h        history: counters of the calls made in this run_graph call,  *)
(*            the store before it (kv0) and the effects committed by the   *)
(*            calls before it (prev)                                       *)
(*   pl       the planner's state (idle while the executor runs)           *)
(***************************************************************************)
VARIABLES scen, kv, pc, i, txns, frames, outcome, h, pl

exec_vars == <<scen, kv, pc, i, txns, frames, outcome, h>>
vars == <<scen, kv, pc, i, txns, frames, outcome, h, pl>>

\* the planner before generate_plan_for_schema is called
PlannerIdle == [step |-> "idle"]

S == scen
GraphAt(gi) == S.script.graphs[gi]

NewTxn == [writes |-> EmptyStore, state |-> "open", ops |-> 0, reads |-> {}]

InitHistory ==
    [begins |-> 0, commits |-> 0, accepted |-> 0, conflicts |-> 0, execs |-> 0,
     entries |-> 0, sleeps |-> 0, yields |-> 0, attempt_ret |-> <<>>, oplog |-> {},
     max_depth |-> 0, sleep_at |-> {}, refire |-> FALSE, multi_select |-> FALSE,
     overlap |-> FALSE, kv_failed |-> FALSE, choice |-> FALSE,
     kv0 |-> EmptyStore, effects |-> <<>>, prev |-> <<>>, chained |-> FALSE,
     raised |-> Unset, raised_at |-> <<0, 0, 0>>, short |-> {},
     visits |-> <<>>, reduced |-> {}, calls |-> 0, rejected |-> 0, thrown |-> <<>>,
     fresh |-> {}, arith |-> {}]

\* history: the first error a call made by run_graph answered with, and how
\* many begin_transaction, commit and sleep_fn calls had been made by then
Raise(hist, e) ==
    IF e.kind = "Err" /\ hist.raised = Unset
    THEN [hist EXCEPT !.raised = e,
                      !.raised_at = <<hist.begins, hist.commits, hist.sleeps>>]
    ELSE hist

Init ==
    /\ scen \in {Scenarios[x] : x \in 1..Len(Scenarios)}
    /\ kv = scen.kv0
    /\ pc = "begin"
    /\ i = 0
    /\ txns = <<>>
    /\ frames = <<>>
    /\ outcome = Unset
    /\ h = [InitHistory EXCEPT !.kv0 = scen.kv0]
    /\ pl = PlannerIdle

\* bug: the comparison is off by one
DepthExceeded_OffByOne(recursion_depth) == recursion_depth > MAX_RECURSION_DEPTH

\* `if recursion_depth >= MAX_RECURSION_DEPTH`
DepthExceeded(recursion_depth) == recursion_depth >= MAX_RECURSION_DEPTH

\* bug: an inclusive range, `for i in 0..=10`
LoopContinues_Inclusive(n) == n <= MAX_ATTEMPTS

\* `for i in 0..10`: whether the loop runs its body for this value of i
LoopContinues(n) == n < MAX_ATTEMPTS

\* bug: yield_fn is awaited for the entry graph only
Entered_YieldsAtRootOnly(hist, depth) ==
    [hist EXCEPT !.calls = @ + 1,
                 !.entries = @ + 1,
                 !.yields = IF S.yield_fn /\ depth = 1 THEN @ + 1 ELSE @,
                 !.max_depth = IF depth > @ THEN depth ELSE @]

\* the history after a call of recursively_run_graph that passed the depth
\* check, awaited yield_fn (if installed) and entered a graph at nesting
\* level `depth`
Entered(hist, depth) ==
    [hist EXCEPT !.calls = @ + 1,
                 !.entries = @ + 1,
                 !.yields = IF S.yield_fn THEN @ + 1 ELSE @,
                 !.max_depth = IF depth > @ THEN depth ELSE @]

\* the history after a call of recursively_run_graph that returned
\* MaxRecursionDepthExceeded, which it does before yield_fn
Rejected(hist) ==
    Raise([hist EXCEPT !.calls = @ + 1, !.rejected = @ + 1],
          ErrMsg("MaxRecursionDepthExceeded", ""))

\* drop the transaction without commit, as unwinding out of run_graph does
DropOpen(ts) == [t \in 1..Len(ts) |-> IF ts[t].state = "open"
                                         THEN [ts[t] EXCEPT !.state = "dropped"] ELSE ts[t]]

\* run_graph returns `result` (or unwinds with a panic)
Finish(result) ==
    /\ pc' = "done"
    /\ outcome' = result
    /\ frames' = <<>>
    /\ UNCHANGED <<scen, kv, i>>

\* bug: the transaction is committed before the graph's error is looked at
FailRun_CommitsFirst(result, ts) ==
    /\ pc' = "done"
    /\ outcome' = result
    /\ frames' = <<>>
    /\ txns' = [ts EXCEPT ![Len(ts)].state = "committed"]
    /\ kv' = ApplyWrites(kv, ts[Len(ts)].writes)
    /\ UNCHANGED <<scen, i>>

\* bug: an error of the graph is treated as a commit conflict, and the loop
\* goes on to its next attempt
FailRun_Retries(result, ts) ==
    /\ pc' = "begin"
    /\ i' = i + 1
    /\ frames' = <<>>
    /\ txns' = DropOpen(ts)
    /\ UNCHANGED <<scen, kv, outcome>>

\* an error (or a panic) leaves run_graph through `?`: no commit, the txn is dropped
FailRun(result, ts) ==
    /\ Finish(result)
    /\ txns' = DropOpen(ts)

\* bug: one transaction, begun before the loop, serves every attempt
BeginTransaction_Shared ==
    /\ UNCHANGED pl
    /\ pc = "begin"
    /\ LoopContinues(i)
    /\ txns' = IF txns = <<>> THEN <<NewTxn>> ELSE [txns EXCEPT ![1].state = "open"]
    /\ frames' = <<NewFrame(1, GraphAt(1), S.params, 1, 1)>>
    /\ pc' = "running"
    /\ h' = Entered([h EXCEPT !.begins = 1, !.execs = @ + 1], 1)
    /\ UNCHANGED <<scen, kv, i, outcome>>

(***************************************************************************)
(* run_graph, top of the loop: begin_transaction succeeds and the entry    *)
(* graph is entered at recursion depth 0.                                  *)
(***************************************************************************)
BeginTransaction ==
    /\ UNCHANGED pl
    /\ pc = "begin"
    /\ LoopContinues(i)
    /\ txns' = Append(txns, NewTxn)
    /\ IF DepthExceeded(0)
       THEN /\ Finish(ErrMsg("MaxRecursionDepthExceeded", ""))
            /\ h' = Rejected([h EXCEPT !.begins = @ + 1])
       ELSE /\ frames' = <<NewFrame(1, GraphAt(1), S.params, 1, Len(txns) + 1)>>
            /\ pc' = "running"
            /\ h' = Entered([h EXCEPT !.begins = @ + 1, !.execs = @ + 1,
                                      !.effects = <<>>, !.visits = <<>>,
                                      !.reduced = {}], 1)
            /\ UNCHANGED <<scen, kv, i, outcome>>

\* begin_transaction fails: `?` returns the error
BeginTransactionFails ==
    /\ UNCHANGED pl
    /\ pc = "begin"
    /\ LoopContinues(i)
    /\ h' = Raise([h EXCEPT !.begins = @ + 1, !.kv_failed = TRUE], Err("KvError::Other"))
    /\ Finish(Err("KvError::Other"))
    /\ UNCHANGED txns

\* the loop is over: Err(ConflictAfterRetries)
RetriesExhausted ==
    /\ UNCHANGED pl
    /\ pc = "begin"
    /\ ~LoopContinues(i)
    /\ Finish(Err("ConflictAfterRetries"))
    /\ UNCHANGED <<txns, h>>

RemoveAt(seq, k) == SubSeq(seq, 1, k - 1) \o SubSeq(seq, k + 1, Len(seq))

RECURSIVE Trim(_)
Trim(fs) == IF fs # <<>> /\ ~fs[Len(fs)].live THEN Trim(SubSeq(fs, 1, Len(fs) - 1)) ELSE fs

\* what the future `fut` of frame `fr` does when polled to completion
Poll(fr, fut) ==
    IF fut.sel
    THEN NodeOut(Ok(fut.params[1]), txns[fr.txn].writes, {}, {})
    ELSE run_node(GraphAt(fr.graph).nodes[fut.node], fut.params, fr.params,
                  S.script.consts, kv, txns[fr.txn].writes, S.ryw)

\* the transaction and the history after the KV operations of `o` on txn `t`
AfterOps(o, t) ==
    [txns EXCEPT ![t].writes = o.writes, ![t].ops = @ + o.kvops,
                 ![t].reads = @ \cup o.rkeys]

\* the futures select_all can return now: a Call future is pending while its
\* sub-graph runs
ReadyIds ==
    UNION {{<<f, k>> : k \in {j \in 1..Len(frames[f].futures) :
                                 LET fut == frames[f].futures[j]
                                 IN  \/ fut.sel
                                     \/ fut.child = 0
                                     \/ frames[fut.child].futures = <<>>}}
           : f \in 1..Len(frames)}

\* bug: a Null output of the sub-graph does not end the loop of Reduce
ReduceStops_IgnoresNull(output, todo) == todo = <<>>

\* whether the loop of Reduce ends after an invocation that returned
\* `output`: `if output.is_null() { break; }`, or no element is left
ReduceStops(output, todo) == is_null(output) \/ todo = <<>>

\* subgraph_params[1] after an invocation that returned `output`
ReduceAcc(acc, output) == IF is_null(output) THEN acc ELSE output

\* whether Reduce returns without calling its sub-graph: an error, a Null
\* list_or_set, or nothing to visit
ReduceImmediate(n, params, o) ==
    \/ o.r.kind # "Ok"
    \/ is_null(params[3])
    \/ ReduceElements(n, params, kv, o.writes, S.ryw) = <<>>

\* history: whether select_all had more than one future to choose from
Seen(hist) == [hist EXCEPT !.choice = @ \/ Cardinality(ReadyIds) >= 2]

\* history: the effect on the store a node was executed for
Effect(n, params) ==
    IF n.op \in {"InsertIntoTable", "InsertIntoSet", "DeleteFromSet"}
       /\ \A p \in 1..Len(params) : ~is_null(params[p])
    THEN <<[op |-> n.op, id |-> n.id, params |-> params]>>
    ELSE <<>>

\* history: what the dispatch of an optional-chained node with a Null among
\* its parameters did
Dispatched(n, params, o, writes) ==
    IF is_optional_chained(n) /\ HasNull(params)
    THEN {[op |-> n.op, ty |-> n.ty, r |-> o.r, kvops |-> o.kvops,
           wrote |-> o.writes # writes]}
    ELSE {}

\* history: an Add or a Sub of two Int64 and its result
Computed(n, params, o) ==
    IF n.op \in {"Add", "Sub"} /\ Len(params) >= 2
       /\ params[1].t = "Int64" /\ params[2].t = "Int64"
    THEN {[op |-> n.op, l |-> params[1].n, r |-> params[2].n, out |-> o.r]}
    ELSE {}

\* whether the table or set the node acts on is a Fresh one
FreshTarget(n, params) ==
    \/ /\ n.op \in {"GetSetElement", "InsertIntoSet", "DeleteFromSet"}
       /\ Len(params) >= 2 /\ params[2].t = "Set" /\ IsFresh(params[2])
    \/ /\ n.op = "InsertIntoTable"
       /\ Len(params) >= 2 /\ params[2].t = "Table" /\ IsFresh(params[2])
    \/ /\ n.op = "Reduce"
       /\ Len(params) >= 3 /\ params[3].t = "Set" /\ IsFresh(params[3])

\* history: what run_node did for a node whose target is Fresh
OnFresh(n, params, o, writes) ==
    IF FreshTarget(n, params)
    THEN {[op |-> n.op, params |-> params, r |-> o.r, wrote |-> o.writes # writes,
           wkeys |-> o.wkeys]}
    ELSE {}

\* history: a Reduce over a list or a set that returned without calling its
\* sub-graph
Unvisited(f, node, n, params, o) ==
    IF n.op = "Reduce" /\ o.r.kind = "Ok" /\ ~is_null(params[3])
    THEN {[at |-> <<f, node>>, params |-> params, ranged |-> has_range(n),
           result |-> o.r.val]}
    ELSE {}

\* history: the KV operations of `o` on txn `t`, and what the iteration `pr` showed
Logged(o, t, pr) ==
    [Seen(h) EXCEPT !.oplog = IF o.kvops > 0 THEN @ \cup {<<h.begins, t>>} ELSE @,
              !.overlap = @ \/ (o.rkeys \cap DOMAIN txns[t].writes # {})
                            \/ (o.wkeys \cap txns[t].reads # {}),
              !.refire = @ \/ (o.r.kind = "Ok" /\ pr.refire),
              !.multi_select = @ \/ (o.r.kind = "Ok" /\ pr.multi)]

(***************************************************************************)
(* One iteration of the loop of recursively_run_graph in frame f:          *)
(* select_all returns the future at position k, a node other than Call.    *)
(* An error of the node, or of the iteration, ends run_graph.              *)
(***************************************************************************)
CompleteNode(f, k) ==
    /\ UNCHANGED pl
    /\ pc = "running"
    /\ frames[f].live
    /\ LET fr == frames[f]
           fut == fr.futures[k]
           g == GraphAt(fr.graph)
           o == Poll(fr, fut)
           pr == Propagate([fr EXCEPT !.futures = RemoveAt(@, k)], g, fut.node, o.r.val)
       IN  /\ \/ fut.sel
              \/ g.nodes[fut.node].op \notin {"Call", "Reduce"}
              \/ ShortCircuits(g.nodes[fut.node], fut.params)
              \/ /\ g.nodes[fut.node].op = "Reduce"
                 /\ ReduceImmediate(g.nodes[fut.node], fut.params, o)
           /\ h' = Raise([Logged(o, fr.txn, pr) EXCEPT
                              !.effects = IF fut.sel \/ o.r.kind # "Ok" THEN @
                                          ELSE @ \o Effect(g.nodes[fut.node], fut.params),
                              !.short = IF fut.sel THEN @
                                        ELSE @ \cup Dispatched(g.nodes[fut.node], fut.params,
                                                               o, txns[fr.txn].writes),
                              !.reduced = IF fut.sel THEN @
                                          ELSE @ \cup Unvisited(f, fut.node, g.nodes[fut.node],
                                                                fut.params, o),
                              !.arith = IF fut.sel THEN @
                                        ELSE @ \cup Computed(g.nodes[fut.node], fut.params, o),
                              !.fresh = IF fut.sel THEN @
                                        ELSE @ \cup OnFresh(g.nodes[fut.node], fut.params, o,
                                                            txns[fr.txn].writes),
                              !.thrown = IF ~fut.sel /\ g.nodes[fut.node].op = "Throw"
                                            /\ Len(fut.params) >= 1
                                         THEN Append(@, fut.params[1]) ELSE @],
                         IF o.r.kind # "Ok" THEN o.r ELSE pr.out)
           /\ IF o.r.kind # "Ok"
              THEN FailRun(o.r, AfterOps(o, fr.txn))
              ELSE IF pr.out.kind # "Ok"
              THEN FailRun(pr.out, AfterOps(o, fr.txn))
              ELSE /\ frames' = [frames EXCEPT ![f] = pr.frame]
                   /\ txns' = AfterOps(o, fr.txn)
                   /\ UNCHANGED <<scen, kv, pc, i, outcome>>

\* a KV operation of the node fails: `?` carries the error out of run_graph
NodeKvError(f, k, e) ==
    /\ UNCHANGED pl
    /\ pc = "running"
    /\ frames[f].live
    /\ LET fr == frames[f]
           fut == fr.futures[k]
           o == Poll(fr, fut)
       IN  /\ fut.sel \/ GraphAt(fr.graph).nodes[fut.node].op # "Call"
           /\ fut.child = 0
           /\ o.kvops > 0
           /\ h' = Raise([Seen(h) EXCEPT !.oplog = @ \cup {<<h.begins, fr.txn>>},
                                         !.kv_failed = TRUE], Err(e))
           /\ FailRun(Err(e), txns)

(***************************************************************************)
(* The first poll of a Call future: recursively_run_graph is entered with  *)
(* the caller's recursion_depth (already incremented by the caller).       *)
(***************************************************************************)
EnterSubgraph(f, k) ==
    /\ UNCHANGED pl
    /\ pc = "running"
    /\ frames[f].live
    /\ LET fr == frames[f]
           fut == fr.futures[k]
           n == GraphAt(fr.graph).nodes[fut.node]
       IN  /\ ~fut.sel /\ n.op = "Call" /\ fut.child = 0
           /\ ~ShortCircuits(n, fut.params)
           /\ IF DepthExceeded(fr.depth)
              THEN /\ FailRun(ErrMsg("MaxRecursionDepthExceeded", ""), txns)
                   /\ h' = Rejected(Seen(h))
              ELSE /\ frames' = Append([frames EXCEPT ![f].futures[k].child = Len(frames) + 1],
                                       NewFrame(n.a, GraphAt(n.a), fut.params, fr.depth + 1, fr.txn))
                   /\ h' = Entered(Seen(h), fr.depth + 1)
                   /\ UNCHANGED <<scen, kv, pc, i, txns, outcome>>

\* the sub-graph's loop found `futures` empty: the Call future completes with its ret
ReturnFromCall(f, k) ==
    /\ UNCHANGED pl
    /\ pc = "running"
    /\ frames[f].live
    /\ LET fr == frames[f]
           fut == fr.futures[k]
           g == GraphAt(fr.graph)
           c == fut.child
           pr == Propagate([fr EXCEPT !.futures = RemoveAt(@, k)], g, fut.node, frames[c].ret)
       IN  /\ ~fut.sel /\ g.nodes[fut.node].op = "Call" /\ c # 0
           /\ frames[c].futures = <<>>
           /\ IF pr.out.kind # "Ok"
              THEN FailRun(pr.out, txns)
              ELSE /\ frames' = Trim([frames EXCEPT ![f] = pr.frame, ![c] = DeadFrame])
                   /\ UNCHANGED <<scen, kv, pc, i, txns, outcome>>
           /\ h' = Raise([Seen(h) EXCEPT !.refire = @ \/ pr.refire,
                                         !.multi_select = @ \/ pr.multi], pr.out)

(***************************************************************************)
(* The first poll of a Reduce future with something to visit: the scan (of *)
(* a set) is made and recursively_run_graph is entered for the first       *)
(* element with (subgraph_param, reduce_init, element).                    *)
(***************************************************************************)
EnterReduce(f, k) ==
    /\ UNCHANGED pl
    /\ pc = "running"
    /\ frames[f].live
    /\ LET fr == frames[f]
           fut == fr.futures[k]
           n == GraphAt(fr.graph).nodes[fut.node]
           o == Poll(fr, fut)
           elems == ReduceElements(n, fut.params, kv, o.writes, S.ryw)
           subgraph_params == <<fut.params[1], fut.params[2], elems[1]>>
           logged == [Seen(h) EXCEPT
                         !.oplog = IF o.kvops > 0 THEN @ \cup {<<h.begins, fr.txn>>} ELSE @,
                         !.overlap = @ \/ (o.rkeys \cap DOMAIN txns[fr.txn].writes # {})]
       IN  /\ ~fut.sel /\ n.op = "Reduce" /\ fut.child = 0
           /\ ~ReduceImmediate(n, fut.params, o)
           /\ IF DepthExceeded(fr.depth)
              THEN /\ FailRun(ErrMsg("MaxRecursionDepthExceeded", ""), AfterOps(o, fr.txn))
                   /\ h' = Rejected(logged)
              ELSE /\ frames' = Append([frames EXCEPT
                                            ![f].futures[k].child = Len(frames) + 1,
                                            ![f].futures[k].acc = fut.params[2],
                                            ![f].futures[k].todo = Tail(elems)],
                                       NewFrame(n.a, GraphAt(n.a), subgraph_params,
                                                fr.depth + 1, fr.txn))
                   /\ txns' = AfterOps(o, fr.txn)
                   /\ h' = Entered([logged EXCEPT
                                        !.visits = Append(@, [at |-> <<f, fut.node>>,
                                                              of |-> fut.params,
                                                              ranged |-> has_range(n),
                                                              params |-> subgraph_params,
                                                              out |-> Unset])],
                                   fr.depth + 1)
                   /\ UNCHANGED <<scen, kv, pc, i, outcome>>

\* history: the last visit gets the output of its invocation
Visited(visits, output) == [visits EXCEPT ![Len(visits)].out = output]

(***************************************************************************)
(* The sub-graph of a Reduce future returned: without an output the        *)
(* `expect` panics; after a Null output, or the last element, the node     *)
(* completes with subgraph_params[1]; else the next element is entered.    *)
(***************************************************************************)
ReduceNext(f, k) ==
    /\ UNCHANGED pl
    /\ pc = "running"
    /\ frames[f].live
    /\ LET fr == frames[f]
           fut == fr.futures[k]
           g == GraphAt(fr.graph)
           n == g.nodes[fut.node]
           c == fut.child
           output == frames[c].ret
           result == ReduceAcc(fut.acc, output)
           pr == Propagate([fr EXCEPT !.futures = RemoveAt(@, k)], g, fut.node, result)
           seen == [Seen(h) EXCEPT !.visits = Visited(@, output)]
       IN  /\ ~fut.sel /\ n.op = "Reduce" /\ c # 0
           /\ frames[c].futures = <<>>
           /\ IF output = NoneV
              THEN /\ FailRun(Panic("inconsistency: ReduceList did not get an output from subgraph"),
                              txns)
                   /\ h' = seen
              ELSE IF ReduceStops(output, fut.todo)
              THEN /\ IF pr.out.kind # "Ok"
                      THEN FailRun(pr.out, txns)
                      ELSE /\ frames' = Trim([frames EXCEPT ![f] = pr.frame, ![c] = DeadFrame])
                           /\ UNCHANGED <<scen, kv, pc, i, txns, outcome>>
                   /\ h' = Raise([seen EXCEPT
                                      !.refire = @ \/ pr.refire,
                                      !.multi_select = @ \/ pr.multi,
                                      !.reduced = @ \cup {[at |-> <<f, fut.node>>,
                                                           params |-> fut.params,
                                                           ranged |-> has_range(n),
                                                           result |-> result]}], pr.out)
              ELSE /\ frames' = [frames EXCEPT
                                     ![f].futures[k].acc = output,
                                     ![f].futures[k].todo = Tail(@),
                                     ![c] = NewFrame(n.a, GraphAt(n.a),
                                                     <<fut.params[1], output, Head(fut.todo)>>,
                                                     fr.depth + 1, fr.txn)]
                   /\ h' = Entered([seen EXCEPT
                                        !.visits = Append(@, [at |-> <<f, fut.node>>,
                                                              of |-> fut.params,
                                                              ranged |-> has_range(n),
                                                              params |-> <<fut.params[1], output,
                                                                           Head(fut.todo)>>,
                                                              out |-> Unset])],
                                   fr.depth + 1)
                   /\ UNCHANGED <<scen, kv, pc, i, txns, outcome>>

(***************************************************************************)
(* recursively_run_graph with select_all always returning the oldest       *)
(* future: the run of invocation `fr` to its end, on write buffer `writes` *)
(* over the store's contents before the call.                              *)
(***************************************************************************)
RECURSIVE InOrder(_, _)
RECURSIVE InOrderReduce(_, _, _, _, _, _)

\* the loop of Reduce after the invocation for one element ended as `sub`
InOrderVisited(n, fr, subgraph_param, acc, todo, sub) ==
    IF sub.r.kind # "Ok" THEN sub
    ELSE IF sub.r.val = NoneV
    THEN [r |-> Panic("inconsistency: ReduceList did not get an output from subgraph"),
          writes |-> sub.writes]
    ELSE IF ReduceStops(sub.r.val, todo)
    THEN [r |-> Ok(ReduceAcc(acc, sub.r.val)), writes |-> sub.writes]
    ELSE InOrderReduce(n, fr, subgraph_param, sub.r.val, todo, sub.writes)

\* the loop of Reduce over the elements `todo`, the first of them next
InOrderReduce(n, fr, subgraph_param, acc, todo, writes) ==
    InOrderVisited(n, fr, subgraph_param, acc, Tail(todo),
                   InOrder(NewFrame(n.a, GraphAt(n.a), <<subgraph_param, acc, Head(todo)>>,
                                    fr.depth + 1, fr.txn), writes))

\* Reduce as a whole, after its head `o`
InOrderReduced(n, fr, params, o) ==
    IF o.r.kind # "Ok" \/ is_null(params[3])
       \/ ReduceElements(n, params, h.kv0, o.writes, S.ryw) = <<>>
    THEN o
    ELSE IF DepthExceeded(fr.depth)
    THEN NodeOut(ErrMsg("MaxRecursionDepthExceeded", ""), o.writes, {}, {})
    ELSE NodeOut(InOrderReduce(n, fr, params[1], params[2],
                               ReduceElements(n, params, h.kv0, o.writes, S.ryw),
                               o.writes).r,
                 InOrderReduce(n, fr, params[1], params[2],
                               ReduceElements(n, params, h.kv0, o.writes, S.ryw),
                               o.writes).writes, {}, {})

InOrder(fr, writes) ==
    IF fr.futures = <<>> THEN [r |-> Ok(fr.ret), writes |-> writes]
    ELSE LET fut == fr.futures[1]
             g == GraphAt(fr.graph)
             n == g.nodes[fut.node]
             o == IF fut.sel THEN NodeOut(Ok(fut.params[1]), writes, {}, {})
                  ELSE IF n.op = "Reduce" /\ ~ShortCircuits(n, fut.params)
                  THEN InOrderReduced(n, fr, fut.params,
                                      run_node(n, fut.params, fr.params, S.script.consts,
                                               h.kv0, writes, S.ryw))
                  ELSE IF n.op # "Call" \/ ShortCircuits(n, fut.params)
                  THEN run_node(n, fut.params, fr.params, S.script.consts, h.kv0,
                                writes, S.ryw)
                  ELSE IF DepthExceeded(fr.depth)
                  THEN NodeOut(ErrMsg("MaxRecursionDepthExceeded", ""), writes, {}, {})
                  ELSE LET sub == InOrder(NewFrame(n.a, GraphAt(n.a), fut.params,
                                                   fr.depth + 1, fr.txn), writes)
                       IN  NodeOut(sub.r, sub.writes, {}, {})
             pr == Propagate([fr EXCEPT !.futures = Tail(@)], g, fut.node, o.r.val)
         IN  IF o.r.kind # "Ok" THEN [r |-> o.r, writes |-> o.writes]
             ELSE IF pr.out.kind # "Ok" THEN [r |-> pr.out, writes |-> o.writes]
             ELSE InOrder(pr.frame, o.writes)

\* what run_graph returns in that order when its first commit is accepted
InOrderOutcome == InOrder(NewFrame(1, GraphAt(1), S.params, 1, 1), EmptyStore).r

(***************************************************************************)
(* The entry graph returned Ok(ret): txn.commit() and its three answers.   *)
(***************************************************************************)
\* bug: the invocation returns as soon as its output node has completed
GraphReturned_AtOutput ==
    pc = "running" /\ frames[1].live
    /\ \/ frames[1].futures = <<>>
       \/ GraphAt(1).output # 0 /\ frames[1].results[GraphAt(1).output] # Unset

\* recursively_run_graph of the entry graph broke out of its loop (213-215)
GraphReturned == pc = "running" /\ frames[1].live /\ frames[1].futures = <<>>

Committing(state) ==
    /\ txns' = [txns EXCEPT ![Len(txns)].state = state]
    /\ h' = Raise([h EXCEPT !.commits = @ + 1,
                            !.accepted = IF state = "committed" THEN @ + 1 ELSE @,
                            !.conflicts = IF state = "conflict" THEN @ + 1 ELSE @,
                            !.attempt_ret = Append(@, frames[1].ret),
                            !.kv_failed = @ \/ state = "failed",
                            !.prev = IF state = "committed" THEN @ \o h.effects ELSE @],
                   IF state = "failed" THEN Err("KvError::Other") ELSE Unset)

CommitOk ==
    /\ UNCHANGED pl
    /\ GraphReturned
    /\ Committing("committed")
    /\ kv' = ApplyWrites(kv, txns[Len(txns)].writes)
    /\ pc' = "done"
    /\ outcome' = Ok(frames[1].ret)
    /\ frames' = <<>>
    /\ UNCHANGED <<scen, i>>

CommitConflict ==
    /\ UNCHANGED pl
    /\ GraphReturned
    /\ Committing("conflict")
    /\ frames' = <<>>
    /\ IF S.sleep_fn
       THEN pc' = "sleep" /\ i' = i
       ELSE pc' = "begin" /\ i' = i + 1
    /\ UNCHANGED <<scen, kv, outcome>>

CommitFails ==
    /\ UNCHANGED pl
    /\ GraphReturned
    /\ Committing("failed")
    /\ Finish(Err("KvError::Other"))

\* sleep_fn returns: the next iteration of the loop
Sleep ==
    /\ UNCHANGED pl
    /\ pc = "sleep"
    /\ pc' = "begin"
    /\ i' = i + 1
    /\ h' = [h EXCEPT !.sleeps = @ + 1, !.sleep_at = @ \cup {i}]
    /\ UNCHANGED <<scen, kv, txns, frames, outcome>>

\* the caller calls run_graph again, with another script, on the same store
RunNext(next) ==
    /\ UNCHANGED pl
    /\ pc = "done"
    /\ outcome.kind \in {"Ok", "Err"}
    /\ MayFollow(S, Scenarios[next])
    /\ IsWriter(Scenarios[next].script) => Len(h.prev) < MaxWrites
    /\ scen' = Scenarios[next]
    /\ pc' = "begin"
    /\ i' = 0
    /\ txns' = <<>>
    /\ frames' = <<>>
    /\ outcome' = Unset
    /\ h' = [InitHistory EXCEPT !.kv0 = kv, !.prev = h.prev, !.chained = TRUE]
    /\ UNCHANGED kv

FutureIds == UNION {{<<f, k>> : k \in 1..Len(frames[f].futures)} : f \in 1..Len(frames)}

Next ==
    \/ BeginTransaction
    \/ BeginTransactionFails
    \/ RetriesExhausted
    \/ \E fk \in FutureIds : CompleteNode(fk[1], fk[2])
    \/ \E fk \in FutureIds : \E e \in {"KvError::Conflict", "KvError::Other"} :
          NodeKvError(fk[1], fk[2], e)
    \/ \E fk \in FutureIds : EnterSubgraph(fk[1], fk[2])
    \/ \E fk \in FutureIds : ReturnFromCall(fk[1], fk[2])
    \/ \E fk \in FutureIds : EnterReduce(fk[1], fk[2])
    \/ \E fk \in FutureIds : ReduceNext(fk[1], fk[2])
    \/ CommitOk
    \/ CommitConflict
    \/ CommitFails
    \/ Sleep
    \/ \E next \in 1..Len(Scenarios) : RunNext(next)

Spec == Init /\ [][Next]_vars

(***************************************************************************)
(* The storage planner.                                                    *)
(*                                                                         *)
(* FieldType is Primitive(p) | Named(type_name) | Set(member) |            *)
(* Optional(inner); `inner` holds the boxed type of Set and Optional.      *)
(* Equality of these records is the derived PartialEq of the source.       *)
(***************************************************************************)
Primitive(p) == [k |-> "Primitive", name |-> p, inner |-> <<>>]
Named(x) == [k |-> "Named", name |-> x, inner |-> <<>>]
Set(member) == [k |-> "Set", name |-> "", inner |-> <<member>>]
Optional(x) == [k |-> "Optional", name |-> "", inner |-> <<x>>]

\* field annotations
Packed == [kind |-> "Packed", from |-> ""]
Primary == [kind |-> "Primary", from |-> ""]
RenameFrom(prev) == [kind |-> "RenameFrom", from |-> prev]

is_packed(annotations) == \E a \in 1..Len(annotations) : annotations[a].kind = "Packed"

\* one field of a type: its name and (FieldType, annotations)
Field(name, ty, annotations) == [name |-> name, ty |-> ty, annotations |-> annotations]

\* an export of a schema
Export(name, ty) == [name |-> name, ty |-> ty]

\* a compiled schema: `types` maps a type name to its fields, `exports` is in
\* the order of the BTreeMap (by name)
CompiledSchema(types, exports) == [types |-> types, exports |-> exports]

EmptyMap == [x \in {} |-> x]

\* `map.get(name)` on a sequence of named entries: <<>> or <<entry>>
Get(entries, name) ==
    LET hits == {e \in 1..Len(entries) : entries[e].name = name}
    IN  IF hits = {} THEN <<>> ELSE <<entries[CHOOSE e \in hits : TRUE]>>

\* `map.insert(name, x)` on a map kept as a function
Insert(map, name, x) == [n \in DOMAIN map \cup {name} |-> IF n = name THEN x ELSE map[n]]

Remove(map, name) == [n \in DOMAIN map \ {name} |-> map[n]]

\* bug: a packed node is marked flattened as well
StorageNode_PackedFlattened(key, flattened, subspace_reference, packed, set, children) ==
    [key |-> key, flattened |-> flattened \/ packed,
     subspace_reference |-> subspace_reference, packed |-> packed, set |-> set,
     children |-> children]

\* a node of a storage plan; `set` is <<>> or <<element node>>
StorageNode(key, flattened, subspace_reference, packed, set, children) ==
    [key |-> key, flattened |-> flattened, subspace_reference |-> subspace_reference,
     packed |-> packed, set |-> set, children |-> children]

StoragePlan(nodes) == [nodes |-> nodes]

\* field_type_key: the address of a FieldType inside the schema.  An export's
\* type and a field's type are values held by the schema; the member of a
\* Set and the inner type of an Optional are boxed one level below.
ExportAddr(export_name) == <<"", export_name, 0>>
FieldAddr(type_name, field_name) == <<type_name, field_name, 0>>
BoxAddr(addr) == <<addr[1], addr[2], addr[3] + 1>>

field_type_key(addr) == addr

\* a point on the old tree; an Option<OldTreePoint> is <<>> or <<point>>
OldTreePoint(name, ty, annotations, node) ==
    [name |-> name, ty |-> ty, annotations |-> annotations, node |-> node]

reduce_optional(self) ==
    IF self.ty.k = "Optional" THEN [self EXCEPT !.ty = self.ty.inner[1]] ELSE self

\* bug: the point keeps standing on the set's own node
reduce_set_KeepsNode(self) ==
    IF self.ty.k = "Set" THEN <<[self EXCEPT !.ty = self.ty.inner[1]]>> ELSE <<>>

reduce_set(self) ==
    IF self.ty.k = "Set"
    THEN IF self.node.set # <<>>
         THEN <<[self EXCEPT !.ty = self.ty.inner[1], !.node = self.node.set[1]]>>
         ELSE <<>>
    ELSE <<>>

\* `mandatory_to_optional` only decides whether the warning is logged
validate_type(self, expected_ty, expected_annotations) ==
    IF self.ty # expected_ty THEN <<>>
    ELSE IF is_packed(self.annotations) /\ ~is_packed(expected_annotations) THEN <<>>
    ELSE IF ~is_packed(self.annotations) /\ is_packed(expected_annotations) THEN <<>>
    ELSE <<self>>

resolve_subfield(self, old_schema, altnames) ==
    LET hits == {a \in 1..Len(altnames) : altnames[a] \in DOMAIN self.node.children}
    IN  IF hits = {} THEN <<>>
        ELSE LET name == altnames[CHOOSE a \in hits : \A b \in hits : a <= b]
                 child_node == self.node.children[name]
             IN  IF self.ty.k # "Named" THEN <<>>
                 ELSE IF self.ty.name \notin DOMAIN old_schema.types THEN <<>>
                 ELSE LET child == Get(old_schema.types[self.ty.name], name)
                      IN  IF child = <<>> THEN <<>>
                          ELSE <<OldTreePoint(child[1].name, child[1].ty,
                                              child[1].annotations, child_node)>>

\* Option::and_then
AndThenValidate(point, expected_ty, expected_annotations) ==
    IF point = <<>> THEN <<>>
    ELSE validate_type(point[1], expected_ty, expected_annotations)

(***************************************************************************)
(* PlanState, with the random source: `tape` holds the next draws of       *)
(* rand_storage_key, and once it is used up the draw is the least key not  *)
(* in used_storage_keys.  `minted` lists the keys rand_storage_key gave.   *)
(***************************************************************************)
PlanState(used_storage_keys, recursive_types, tape) ==
    [used_storage_keys |-> used_storage_keys, recursive_types |-> recursive_types,
     fields_in_stack |-> EmptyMap, tape |-> tape, minted |-> <<>>, calls |-> 0,
     nesting |-> 0]

\* how deep the calls of generate_field may nest before the model gives the
\* generation up as not ending
MaxNesting == 12

\* the plan state inside one more call of generate_field, and the result of
\* that call as its caller sees it
Called(st) == [st EXCEPT !.calls = @ + 1, !.nesting = @ + 1]
Returned(r) == [r EXCEPT !.st.nesting = @ - 1]

LeastUnused(used) ==
    CHOOSE key \in 1..(Cardinality(used) + 1) :
        key \notin used /\ \A j \in 1..(key - 1) : j \in used

\* rand_storage_key without the loop: the first draw is the key, used or not
rand_storage_key_NoRetry(st) ==
    LET ret == IF st.tape = <<>> THEN 1 ELSE Head(st.tape)
        rest == IF st.tape = <<>> THEN <<>> ELSE Tail(st.tape)
    IN  [st |-> [st EXCEPT !.tape = rest,
                           !.used_storage_keys = @ \cup {ret},
                           !.minted = Append(@, ret)],
         key |-> ret]

\* the loop draws until `used_storage_keys.insert(ret)` says the key is new
RECURSIVE rand_storage_key(_)
rand_storage_key(st) ==
    LET ret == IF st.tape = <<>> THEN LeastUnused(st.used_storage_keys) ELSE Head(st.tape)
        rest == IF st.tape = <<>> THEN <<>> ELSE Tail(st.tape)
    IN  IF ret \in st.used_storage_keys
        THEN rand_storage_key([st EXCEPT !.tape = rest])
        ELSE [st |-> [st EXCEPT !.tape = rest,
                                !.used_storage_keys = @ \cup {ret},
                                !.minted = Append(@, ret)],
              key |-> ret]

\* `old_point.map(|x| x.node.key).unwrap_or_else(|| rand_storage_key(plan_st))`
KeyOrRand(st, old_point) ==
    IF old_point # <<>> THEN [st |-> st, key |-> old_point[1].node.key]
    ELSE rand_storage_key(st)

RECURSIVE collect_storage_keys(_)
collect_storage_keys(node) ==
    {node.key}
        \cup (IF node.set = <<>> THEN {} ELSE collect_storage_keys(node.set[1]))
        \cup UNION {collect_storage_keys(node.children[c]) : c \in DOMAIN node.children}

\* collect_recursive_types; `state` and `sink` are threaded through, err is
\* "" or the name of the missing type
RECURSIVE collect_recursive_types(_, _, _, _, _)
collect_recursive_types(ty, addr, schema, state, sink) ==
    CASE ty.k \in {"Optional", "Set"} ->
            collect_recursive_types(ty.inner[1], BoxAddr(addr), schema, state, sink)
      [] ty.k = "Primitive" -> [state |-> state, sink |-> sink, err |-> ""]
      [] OTHER ->
            LET type_key == field_type_key(addr)
            IN  IF type_key \in state
                THEN [state |-> state, sink |-> sink \cup {type_key}, err |-> ""]
                ELSE IF ty.name \notin DOMAIN schema.types
                THEN [state |-> state \cup {type_key}, sink |-> sink, err |-> ty.name]
                ELSE LET fields == schema.types[ty.name]
                         \* the loop over the fields: after[f] is the state
                         \* after the first f of them
                         after[f \in 0..Len(fields)] ==
                             IF f = 0
                             THEN [state |-> state \cup {type_key}, sink |-> sink, err |-> ""]
                             ELSE IF after[f - 1].err # "" THEN after[f - 1]
                             ELSE IF is_packed(fields[f].annotations) THEN after[f - 1]
                             ELSE collect_recursive_types(
                                      fields[f].ty, FieldAddr(ty.name, fields[f].name),
                                      schema, after[f - 1].state, after[f - 1].sink)
                         r == after[Len(fields)]
                     IN  IF r.err # "" THEN r
                         ELSE [r EXCEPT !.state = @ \ {type_key}]

NoNode == StorageNode(0, FALSE, FALSE, FALSE, <<>>, EmptyMap)

\* bug: @rename_from is ignored
AltNames_NoRename(annotations, a) == <<>>

\* the names a subfield may have in the old plan: its own, then its @rename_from ones
RECURSIVE AltNames(_, _)
AltNames(annotations, a) ==
    IF a > Len(annotations) THEN <<>>
    ELSE (IF annotations[a].kind = "RenameFrom" THEN <<annotations[a].from>> ELSE <<>>)
             \o AltNames(annotations, a + 1)

\* bug: the occurrence being generated is never put on the stack
EnterType_NoPush(st, recursive, key, storage_key) ==
    [st |-> st, err |-> "", children |-> EmptyMap]

\* `plan_st.fields_in_stack.insert(key, storage_key)` for a recursive type,
\* and the empty `children` the loop over its fields starts from
EnterType(st, recursive, key, storage_key) ==
    [st |-> IF recursive THEN [st EXCEPT !.fields_in_stack = Insert(@, key, storage_key)]
            ELSE st,
     err |-> "", children |-> EmptyMap]

\* `old_point.and_then(|x| x.resolve_subfield(..)).and_then(|x| x.validate_type(..))`
SubfieldOldPoint(old_point, old_schema, subfield) ==
    IF old_point = <<>> THEN <<>>
    ELSE AndThenValidate(resolve_subfield(old_point[1], old_schema,
                                          <<subfield.name>>
                                              \o AltNames(subfield.annotations, 1)),
                         subfield.ty, subfield.annotations)

\* one turn of the loop over `ty.fields`: `children.insert(name, generate_field(..)?)`;
\* after an error the loop has returned and no further field is generated
AddChild(prev, name, x) ==
    IF prev.err # "" THEN prev
    ELSE [st |-> x.st, err |-> x.err,
          children |-> IF x.err # "" THEN prev.children
                       ELSE Insert(prev.children, name, x.node)]

\* bug: the node of a named type is flattened whether or not it is recursive
LeaveType_AlwaysFlattened(ch, recursive, key, storage_key) ==
    IF ch.err # "" THEN [st |-> ch.st, err |-> ch.err, node |-> NoNode]
    ELSE [st |-> IF recursive THEN [ch.st EXCEPT !.fields_in_stack = Remove(@, key)]
                 ELSE ch.st,
          err |-> "",
          node |-> StorageNode(storage_key, TRUE, FALSE, FALSE, <<>>, ch.children)]

\* `plan_st.fields_in_stack.remove(&key)` and the node of a named type
LeaveType(ch, recursive, key, storage_key) ==
    IF ch.err # "" THEN [st |-> ch.st, err |-> ch.err, node |-> NoNode]
    ELSE [st |-> IF recursive THEN [ch.st EXCEPT !.fields_in_stack = Remove(@, key)]
                 ELSE ch.st,
          err |-> "",
          node |-> StorageNode(storage_key, ~recursive, FALSE, FALSE, <<>>, ch.children)]

(***************************************************************************)
(* generate_field: the storage node for `field` (at address `addr` of the  *)
(* new schema), given the matching point of the old tree, if any.          *)
(* Result: the plan state after, the node, and err ("" or the missing      *)
(* type's name).                                                           *)
(***************************************************************************)
RECURSIVE generate_field(_, _, _, _, _, _, _)
generate_field(st, schema, old_schema, field, addr, annotations, old_point) ==
    IF st.nesting >= MaxNesting THEN [st |-> st, err |-> "Overrun", node |-> NoNode]
    ELSE Returned(
    CASE field.k = "Optional" ->
            generate_field(Called(st), schema, old_schema, field.inner[1], BoxAddr(addr),
                           annotations,
                           IF old_point = <<>> THEN <<>>
                           ELSE <<reduce_optional(old_point[1])>>)
      [] field.k = "Named" ->
            IF is_packed(annotations)
            THEN LET k == KeyOrRand(Called(st), old_point)
                 IN  [st |-> k.st, err |-> "",
                      node |-> StorageNode(k.key, FALSE, FALSE, TRUE, <<>>, EmptyMap)]
            ELSE IF field_type_key(addr) \in DOMAIN st.fields_in_stack
            THEN [st |-> Called(st), err |-> "",
                  node |-> StorageNode(st.fields_in_stack[field_type_key(addr)],
                                       FALSE, TRUE, FALSE, <<>>, EmptyMap)]
            ELSE IF field.name \notin DOMAIN schema.types
            THEN [st |-> Called(st), err |-> field.name, node |-> NoNode]
            ELSE LET key == field_type_key(addr)
                     k == KeyOrRand(Called(st), old_point)
                     recursive == key \in st.recursive_types
                     fields == schema.types[field.name]
                     \* the loop over `ty.fields`: after[f] is the plan state and
                     \* the children after the first f subfields
                     after[f \in 0..Len(fields)] ==
                         IF f = 0 THEN EnterType(k.st, recursive, key, k.key)
                         ELSE AddChild(after[f - 1], fields[f].name,
                                       generate_field(after[f - 1].st, schema, old_schema,
                                                      fields[f].ty,
                                                      FieldAddr(field.name, fields[f].name),
                                                      fields[f].annotations,
                                                      SubfieldOldPoint(old_point, old_schema,
                                                                       fields[f])))
                 IN  LeaveType(after[Len(fields)], recursive, key, k.key)
      [] field.k = "Primitive" ->
            LET k == KeyOrRand(Called(st), old_point)
            IN  [st |-> k.st, err |-> "",
                 node |-> StorageNode(k.key, FALSE, FALSE, FALSE, <<>>, EmptyMap)]
      [] OTHER ->
            LET member == IF old_point = <<>> THEN <<>>
                          ELSE AndThenValidate(reduce_set(old_point[1]), field.inner[1],
                                               annotations)
                inner == generate_field(Called(st), schema, old_schema, field.inner[1],
                                        BoxAddr(addr), annotations, member)
                k == KeyOrRand(inner.st, old_point)
            IN  IF inner.err # "" THEN inner
                ELSE [st |-> k.st, err |-> "",
                      node |-> StorageNode(k.key, FALSE, FALSE, FALSE, <<inner.node>>,
                                           EmptyMap)])

\* the first loop of generate_plan_for_schema: the recursive types reachable
\* from the exports
RECURSIVE CollectExports(_, _, _)
CollectExports(schema, e, sink) ==
    IF e > Len(schema.exports) THEN [sink |-> sink, err |-> ""]
    ELSE LET r == collect_recursive_types(schema.exports[e].ty,
                                          ExportAddr(schema.exports[e].name), schema, {}, sink)
         IN  IF r.err # "" THEN [sink |-> r.sink, err |-> r.err]
             ELSE CollectExports(schema, e + 1, r.sink)

\* the last loop of generate_plan_for_schema: one node per export
RECURSIVE GenerateExports(_, _, _, _, _, _)
GenerateExports(st, old_plan, old_schema, schema, e, nodes) ==
    IF e > Len(schema.exports) THEN [st |-> st, err |-> "", nodes |-> nodes]
    ELSE LET export_name == schema.exports[e].name
             export_field == schema.exports[e].ty
             ty == Get(old_schema.exports, export_name)
             old_point ==
                 IF ty = <<>> \/ export_name \notin DOMAIN old_plan.nodes THEN <<>>
                 ELSE validate_type(OldTreePoint(export_name, ty[1].ty, <<>>,
                                                 old_plan.nodes[export_name]),
                                    export_field, <<>>)
             node == generate_field(st, schema, old_schema, export_field,
                                    ExportAddr(export_name), <<>>, old_point)
         IN  IF node.err # "" THEN [st |-> node.st, err |-> node.err, nodes |-> nodes]
             ELSE GenerateExports(node.st, old_plan, old_schema, schema, e + 1,
                                  Insert(nodes, export_name, node.node))

\* generate_plan_for_schema without the keys of the old plan in the used set
generate_plan_for_schema_NoCarryOver(old_plan, old_schema, schema, tape) ==
    LET rec == CollectExports(schema, 1, {})
        r == GenerateExports(PlanState({}, rec.sink, tape), old_plan, old_schema, schema,
                             1, EmptyMap)
    IN  IF rec.err # ""
        THEN [plan |-> StoragePlan(EmptyMap), err |-> rec.err, minted |-> <<>>, tape |-> tape,
              calls |-> 0]
        ELSE [plan |-> StoragePlan(r.nodes), err |-> r.err, minted |-> r.st.minted,
              tape |-> r.st.tape, calls |-> r.st.calls]

\* generate_plan_for_schema, drawing fresh keys from `tape`: the plan (or
\* the MissingType error), the keys it minted and what is left of the tape
generate_plan_for_schema(old_plan, old_schema, schema, tape) ==
    LET rec == CollectExports(schema, 1, {})
        used == UNION {collect_storage_keys(old_plan.nodes[n]) : n \in DOMAIN old_plan.nodes}
        r == GenerateExports(PlanState(used, rec.sink, tape), old_plan, old_schema, schema,
                             1, EmptyMap)
    IN  IF rec.err # ""
        THEN [plan |-> StoragePlan(EmptyMap), err |-> rec.err, minted |-> <<>>, tape |-> tape,
              calls |-> 0]
        ELSE [plan |-> StoragePlan(r.nodes), err |-> r.err, minted |-> r.st.minted,
              tape |-> r.st.tape, calls |-> r.st.calls]

(***************************************************************************)
(* The schemas the planner is run on.                                      *)
(***************************************************************************)
EmptySchema == CompiledSchema(EmptyMap, <<>>)

Types1(n1, f1) == [n \in {n1} |-> f1]
Types2(n1, f1, n2, f2) == [n \in {n1, n2} |-> IF n = n1 THEN f1 ELSE f2]

\* type Item { a: int64, b: string } export Item item;
SchemaItem ==
    CompiledSchema(Types1("Item", <<Field("a", Primitive("int64"), <<>>),
                                    Field("b", Primitive("string"), <<>>)>>),
                   <<Export("item", Named("Item"))>>)

\* the same with a: int64?
SchemaItemOptA ==
    CompiledSchema(Types1("Item", <<Field("a", Optional(Primitive("int64")), <<>>),
                                    Field("b", Primitive("string"), <<>>)>>),
                   <<Export("item", Named("Item"))>>)

\* the same with a: string
SchemaItemStrA ==
    CompiledSchema(Types1("Item", <<Field("a", Primitive("string"), <<>>),
                                    Field("b", Primitive("string"), <<>>)>>),
                   <<Export("item", Named("Item"))>>)

\* SchemaItem with the export widened: export Item? item;
SchemaItemOptExport ==
    CompiledSchema(Types1("Item", <<Field("a", Primitive("int64"), <<>>),
                                    Field("b", Primitive("string"), <<>>)>>),
                   <<Export("item", Optional(Named("Item")))>>)

\* type Item { @primary id: string, v: int64? } export set<Item> items;
SchemaSet ==
    CompiledSchema(Types1("Item", <<Field("id", Primitive("string"), <<Primary>>),
                                    Field("v", Optional(Primitive("int64")), <<>>)>>),
                   <<Export("items", Set(Named("Item")))>>)

\* type BinaryTree { left: BinaryTree?, right: BinaryTree?, value: int64 }
\* export BinaryTree tree;
SchemaTree ==
    CompiledSchema(Types1("BinaryTree",
                          <<Field("left", Optional(Named("BinaryTree")), <<>>),
                            Field("right", Optional(Named("BinaryTree")), <<>>),
                            Field("value", Primitive("int64"), <<>>)>>),
                   <<Export("tree", Named("BinaryTree"))>>)

\* type Dir { @primary name: string, subdirs: set<Dir> } export Dir root;
SchemaDir ==
    CompiledSchema(Types1("Dir", <<Field("name", Primitive("string"), <<Primary>>),
                                   Field("subdirs", Set(Named("Dir")), <<>>)>>),
                   <<Export("root", Named("Dir"))>>)

\* type Outer { @packed inner: Inner, n: int64 } type Inner { x: int64 }
\* export Outer outer;
SchemaPacked ==
    CompiledSchema(Types2("Outer", <<Field("inner", Named("Inner"), <<Packed>>),
                                     Field("n", Primitive("int64"), <<>>)>>,
                          "Inner", <<Field("x", Primitive("int64"), <<>>)>>),
                   <<Export("outer", Named("Outer"))>>)

\* the same with @packed inner: Inner?
SchemaPackedOpt ==
    CompiledSchema(Types2("Outer", <<Field("inner", Optional(Named("Inner")), <<Packed>>),
                                     Field("n", Primitive("int64"), <<>>)>>,
                          "Inner", <<Field("x", Primitive("int64"), <<>>)>>),
                   <<Export("outer", Named("Outer"))>>)

\* SchemaItem with field a renamed: type Item { @rename_from("a") c: int64, b: string }
SchemaItemRenamed ==
    CompiledSchema(Types1("Item", <<Field("c", Primitive("int64"), <<RenameFrom("a")>>),
                                    Field("b", Primitive("string"), <<>>)>>),
                   <<Export("item", Named("Item"))>>)

\* SchemaItem with a new field that names the kept field a as its former name:
\* type Item { a: int64, @rename_from("a") c: int64, b: string }
SchemaItemAlias ==
    CompiledSchema(Types1("Item", <<Field("a", Primitive("int64"), <<>>),
                                    Field("c", Primitive("int64"), <<RenameFrom("a")>>),
                                    Field("b", Primitive("string"), <<>>)>>),
                   <<Export("item", Named("Item"))>>)

\* SchemaItem with a field of a type the schema does not define:
\* type Item { a: int64, b: string, x: Ghost }
SchemaMissing ==
    CompiledSchema(Types1("Item", <<Field("a", Primitive("int64"), <<>>),
                                    Field("b", Primitive("string"), <<>>),
                                    Field("x", Named("Ghost"), <<>>)>>),
                   <<Export("item", Named("Item"))>>)

\* the same with the field packed: @packed x: Ghost
SchemaMissingPacked ==
    CompiledSchema(Types1("Item", <<Field("a", Primitive("int64"), <<>>),
                                    Field("b", Primitive("string"), <<>>),
                                    Field("x", Named("Ghost"), <<Packed>>)>>),
                   <<Export("item", Named("Item"))>>)

\* SchemaItem with a second export, of a set of an undefined type:
\* export set<Ghost> ghosts;
SchemaMissingExport ==
    CompiledSchema(Types1("Item", <<Field("a", Primitive("int64"), <<>>),
                                    Field("b", Primitive("string"), <<>>)>>),
                   <<Export("item", Named("Item")), Export("ghosts", Set(Named("Ghost")))>>)

\* a migration: the old schema, the new one, and the path (export, then
\* field names) of the field whose type was widened from T to T?, if any
Migration(old, new, widened) == [old |-> old, new |-> new, widened |-> widened]

\* type Item { @rename_from(a) c: int64, b: string }, as a migration of a
\* schema that has both a and c
SchemaItemPrefer ==
    CompiledSchema(Types1("Item", <<Field("c", Primitive("int64"), <<RenameFrom("a")>>),
                                    Field("b", Primitive("string"), <<>>)>>),
                   <<Export("item", Named("Item"))>>)

\* type Item { @rename_from(a) c: string, b: string }
SchemaItemRenamedStr ==
    CompiledSchema(Types1("Item", <<Field("c", Primitive("string"), <<RenameFrom("a")>>),
                                    Field("b", Primitive("string"), <<>>)>>),
                   <<Export("item", Named("Item"))>>)

\* type Outer { @packed @rename_from(inner) core: Inner, n: int64 }
SchemaPackedRenamed ==
    CompiledSchema(Types2("Outer", <<Field("core", Named("Inner"),
                                           <<Packed, RenameFrom("inner")>>),
                                     Field("n", Primitive("int64"), <<>>)>>,
                          "Inner", <<Field("x", Primitive("int64"), <<>>)>>),
                   <<Export("outer", Named("Outer"))>>)

\* type Outer { @rename_from(inner) core: Inner, n: int64 }
SchemaUnpackedRenamed ==
    CompiledSchema(Types2("Outer", <<Field("core", Named("Inner"), <<RenameFrom("inner")>>),
                                     Field("n", Primitive("int64"), <<>>)>>,
                          "Inner", <<Field("x", Primitive("int64"), <<>>)>>),
                   <<Export("outer", Named("Outer"))>>)

\* type BinaryTree<T> with its field left renamed to l
SchemaTreeRenamed ==
    CompiledSchema(Types1("BinaryTree",
                          <<Field("l", Optional(Named("BinaryTree")), <<RenameFrom("left")>>),
                            Field("right", Optional(Named("BinaryTree")), <<>>),
                            Field("value", Primitive("int64"), <<>>)>>),
                   <<Export("tree", Named("BinaryTree"))>>)

\* type A { again: B?, b: B? } type B { owners: set<A>, n: int64 }
\* export A a; export set<B> bs;
SchemaMutual ==
    CompiledSchema(Types2("A", <<Field("again", Optional(Named("B")), <<>>),
                                 Field("b", Optional(Named("B")), <<>>)>>,
                          "B", <<Field("n", Primitive("int64"), <<>>),
                                 Field("owners", Set(Named("A")), <<>>)>>),
                   <<Export("a", Named("A")), Export("bs", Set(Named("B")))>>)

Migrations ==
    << Migration(SchemaItem, SchemaItem, <<>>),
       Migration(SchemaItemOptA, SchemaItemOptA, <<>>),
       Migration(SchemaItemOptExport, SchemaItemOptExport, <<>>),
       Migration(SchemaSet, SchemaSet, <<>>),
       Migration(SchemaTree, SchemaTree, <<>>),
       Migration(SchemaDir, SchemaDir, <<>>),
       Migration(SchemaPacked, SchemaPacked, <<>>),
       Migration(SchemaPackedOpt, SchemaPackedOpt, <<>>),
       Migration(SchemaItem, SchemaItemOptA, <<"item", "a">>),
       Migration(SchemaItem, SchemaItemOptExport, <<"item">>),
       Migration(SchemaPacked, SchemaPackedOpt, <<"outer", "inner">>),
       Migration(SchemaItem, SchemaItemStrA, <<>>),
       Migration(SchemaItem, SchemaSet, <<>>),
       Migration(SchemaItem, SchemaItemRenamed, <<>>),
       Migration(SchemaItem, SchemaItemAlias, <<>>),
       Migration(SchemaTree, SchemaItem, <<>>),
       Migration(SchemaItem, SchemaMissing, <<>>),
       Migration(SchemaItem, SchemaMissingPacked, <<>>),
       Migration(SchemaItem, SchemaMissingExport, <<>>),
       Migration(SchemaMissing, SchemaItem, <<>>),
       Migration(SchemaItemAlias, SchemaItemPrefer, <<>>),
       Migration(SchemaItem, SchemaItemRenamedStr, <<>>),
       Migration(SchemaPacked, SchemaPackedRenamed, <<>>),
       Migration(SchemaPacked, SchemaUnpackedRenamed, <<>>),
       Migration(SchemaTree, SchemaTreeRenamed, <<>>),
       Migration(SchemaMutual, SchemaMutual, <<>>),
       Migration(SchemaTree, SchemaMutual, <<>>) >>

\* the keys the random source may draw, and how many draws are enumerated
MaxKey == 3
TapeLen == 4

Tapes == [1..TapeLen -> 1..MaxKey]

\* the node of `plan` at `path`
RECURSIVE NodeAt(_, _)
NodeAt(node, path) ==
    IF path = <<>> THEN node ELSE NodeAt(node.children[Head(path)], Tail(path))

KeyAt(plan, path) == NodeAt(plan.nodes[Head(path)], Tail(path)).key

\* every node below (and including) `node`, with the path that leads to it;
\* the element node of a set is entered under the name "[]"
RECURSIVE NodesUnder(_, _)
NodesUnder(node, path) ==
    {[path |-> path, key |-> node.key, subspace_reference |-> node.subspace_reference]}
        \cup (IF node.set = <<>> THEN {}
              ELSE NodesUnder(node.set[1], Append(path, "[]")))
        \cup UNION {NodesUnder(node.children[c], Append(path, c)) :
                        c \in DOMAIN node.children}

\* every node of a plan
PlanNodes(plan) == UNION {NodesUnder(plan.nodes[n], <<n>>) : n \in DOMAIN plan.nodes}

\* every key of a plan
PlanKeys(plan) == UNION {collect_storage_keys(plan.nodes[n]) : n \in DOMAIN plan.nodes}

(***************************************************************************)
(* The planner's runs: a first plan P0 is generated for the old schema     *)
(* from the empty plan, then generate_plan_for_schema migrates P0 to the   *)
(* new schema.                                                             *)
(***************************************************************************)
M == Migrations[pl.migration]

InitPlan ==
    /\ pl \in {[step |-> "start", migration |-> m, tape |-> t,
                p0 |-> StoragePlan(EmptyMap), p1 |-> StoragePlan(EmptyMap),
                minted |-> <<>>, err |-> "", calls |-> 0] :
                   m \in 1..Len(Migrations), t \in Tapes}
    /\ scen = Scenarios[1]
    /\ kv = EmptyStore
    /\ pc = "idle"
    /\ i = 0
    /\ txns = <<>>
    /\ frames = <<>>
    /\ outcome = Unset
    /\ h = InitHistory

\* generate_plan_for_schema(empty plan, empty schema, old schema)
GenerateOldPlan ==
    /\ pl.step = "start"
    /\ LET r == generate_plan_for_schema(StoragePlan(EmptyMap), EmptySchema, M.old, pl.tape)
       IN  pl' = [pl EXCEPT !.step = "old", !.p0 = r.plan, !.tape = r.tape, !.err = r.err,
                            !.calls = r.calls]
    /\ UNCHANGED exec_vars

\* generate_plan_for_schema(P0, old schema, new schema)
Migrate ==
    /\ pl.step = "old"
    /\ pl.err = ""
    /\ LET r == generate_plan_for_schema(pl.p0, M.old, M.new, pl.tape)
       IN  pl' = [pl EXCEPT !.step = "new", !.p1 = r.plan, !.tape = r.tape,
                            !.minted = r.minted, !.err = r.err, !.calls = r.calls]
    /\ UNCHANGED exec_vars

NextPlan == GenerateOldPlan \/ Migrate

SpecPlan == InitPlan /\ [][NextPlan]_vars

(***************************************************************************)
(* Properties of the executor.                                             *)
(***************************************************************************)
LiveFrames == {f \in 1..Len(frames) : frames[f].live}

\* C1: when the store answers Conflict to the first N < 10 commits and then
\* accepts one, run_graph returns Ok with the output of attempt N+1, having
\* begun N+1 transactions and run the graph N+1 times from a fresh node
\* state, every KV operation of an attempt going to that attempt's txn.
C1_RetryUntilAccepted ==
    /\ \A op \in h.oplog : op[1] = op[2]
    /\ h.accepted = 1 =>
         LET N == h.conflicts
         IN  /\ N < MAX_ATTEMPTS
             /\ pc = "done" /\ outcome = Ok(h.attempt_ret[N + 1])
             /\ h.begins = N + 1 /\ Len(txns) = N + 1
             /\ h.execs = N + 1 /\ h.commits = N + 1
             /\ \A t \in 1..N : txns[t].state = "conflict"
             /\ txns[N + 1].state = "committed"

\* C1 witness: nine conflicts, then the tenth commit is accepted, with KV reads
C1_Witness ==
    /\ pc = "done" /\ outcome.kind = "Ok"
    /\ h.conflicts = MAX_ATTEMPTS - 1
    /\ Cardinality(h.oplog) = MAX_ATTEMPTS

\* C2: when every commit is answered Conflict, run_graph fails with
\* ConflictAfterRetries after exactly 10 begin_transaction and 10 commit
\* calls; there is never an 11th attempt.
C2_ConflictAfterRetries ==
    /\ h.begins <= MAX_ATTEMPTS /\ h.commits <= MAX_ATTEMPTS
    /\ (pc = "done" /\ h.conflicts = MAX_ATTEMPTS) =>
           outcome = Err("ConflictAfterRetries")
    /\ outcome.err = "ConflictAfterRetries" =>
           /\ h.begins = MAX_ATTEMPTS /\ Len(txns) = MAX_ATTEMPTS
           /\ h.commits = MAX_ATTEMPTS /\ h.conflicts = MAX_ATTEMPTS
           /\ h.execs = MAX_ATTEMPTS /\ h.accepted = 0

\* C2 witness: the run that ended in ConflictAfterRetries
C2_Witness == pc = "done" /\ outcome.err = "ConflictAfterRetries" /\ h.commits = MAX_ATTEMPTS

\* C3: effect writes are all-or-nothing: when run_graph fails no commit was
\* accepted and the store holds what it held before the call; when it
\* returns Ok exactly one commit was accepted and the store holds the
\* writes of that one attempt on top of its former contents.
C3_AllOrNothing ==
    /\ h.accepted <= 1
    /\ h.accepted = 0 => kv = h.kv0
    /\ (pc = "done" /\ outcome.kind # "Ok") =>
           /\ h.accepted = 0 /\ kv = h.kv0
           /\ \A t \in 1..Len(txns) : txns[t].state # "committed"
    /\ (pc = "done" /\ outcome.kind = "Ok") =>
           /\ h.accepted = 1
           /\ \A t \in 1..Len(txns) : txns[t].state = "committed" <=> t = Len(txns)
           /\ kv = ApplyWrites(h.kv0, txns[Len(txns)].writes)

\* C3 witness: a Throw ended the run after an effect node had issued its put
C3_Witness ==
    /\ pc = "done" /\ outcome.err = "ScriptThrownError"
    /\ \E t \in 1..Len(txns) : DOMAIN txns[t].writes # {} /\ txns[t].state = "dropped"

\* C4: a non-Select node is started only when every node of its in_edges
\* has completed with a value and its precondition node has completed, and
\* it gets as parameter p the result of in_edges[p].
C4_ParamsAreInEdgeResults ==
    \A f \in LiveFrames : \A k \in 1..Len(frames[f].futures) :
        LET fut == frames[f].futures[k]
            n == GraphAt(frames[f].graph).nodes[fut.node]
        IN  ~fut.sel =>
              /\ Len(fut.params) = Len(n.in_edges)
              /\ \A p \in 1..Len(n.in_edges) :
                    /\ p <= Len(fut.params)
                    /\ IsSome(fut.params[p])
                    /\ frames[f].results[n.in_edges[p]] = Ok(fut.params[p])
              /\ n.pre # 0 => frames[f].results[n.pre].kind = "Ok"

\* C5: when a Select has fired on one candidate and its other candidate,
\* produced by a different node, then produces a value too, the run fails
\* with BothSelectCandidatesFired.
C5_BothSelectCandidatesFired ==
    h.refire => (pc = "done" /\ outcome.err = "BothSelectCandidatesFired")

\* the runs C6 speaks of: select_all had a choice, run_graph returned what
\* the graph computed (no KV failure, no retry exhaustion) and no Select saw
\* two candidates
DecidedByGraph ==
    /\ pc = "done"
    /\ h.choice
    /\ ~h.kv_failed
    /\ outcome.err # "ConflictAfterRetries"
    /\ ~h.multi_select

\* C6 as stated: the value returned, or the error raised, is the same
\* for every completion order of concurrently ready nodes.
C6_SameResultInEveryOrder == DecidedByGraph => outcome = InOrderOutcome

\* C6: for every completion order, run_graph succeeds or fails alike, and a
\* success returns the same value, unless a node read a key another node of
\* the same transaction wrote on a store whose reads see the transaction's
\* own writes; which error a failing run raises depends on the order.
C6_SameValueInEveryOrder ==
    (DecidedByGraph /\ ~(S.ryw /\ h.overlap)) =>
        /\ (outcome.kind = "Ok") <=> (InOrderOutcome.kind = "Ok")
        /\ outcome.kind = "Ok" => outcome.val = InOrderOutcome.val

\* C6 witness: a run that ended differently from the in-order run of its script
C6_Witness == DecidedByGraph /\ ~h.overlap /\ outcome # InOrderOutcome

\* C7: a graph with an output node never makes run_graph return Ok without
\* a value, also when the output node is gated by a precondition that is
\* false or null.
C7_OkCarriesValue ==
    (pc = "done" /\ outcome.kind = "Ok" /\ GraphAt(1).output # 0) => IsSome(outcome.val)

\* C8: nesting through Call never goes beyond MAX_RECURSION_DEPTH levels,
\* the entry graph included; the invocation that would be level 129 runs no
\* node and run_graph fails with MaxRecursionDepthExceeded, nothing committed.
C8_RecursionBounded ==
    /\ h.max_depth <= MAX_RECURSION_DEPTH
    /\ Cardinality(LiveFrames) <= MAX_RECURSION_DEPTH
    /\ \A f \in LiveFrames : frames[f].depth <= MAX_RECURSION_DEPTH
    /\ outcome.err = "MaxRecursionDepthExceeded" =>
           /\ pc = "done" /\ h.max_depth = MAX_RECURSION_DEPTH
           /\ h.commits = 0 /\ h.accepted = 0 /\ kv = h.kv0
    /\ (pc = "done" /\ S.script = Recurse /\ ~h.kv_failed) =>
           outcome.err = "MaxRecursionDepthExceeded"

\* C8 witness: the self-calling graph ran 128 levels deep and was stopped
C8_Witness ==
    /\ pc = "done" /\ outcome.err = "MaxRecursionDepthExceeded"
    /\ h.entries = MAX_RECURSION_DEPTH

\* the last element of `effects` that satisfies Touches, as <<>> or <<e>>
LastEffect(effects, Touches(_)) ==
    LET hits == {x \in 1..Len(effects) : Touches(effects[x])}
    IN  IF hits = {} THEN <<>>
        ELSE <<effects[CHOOSE x \in hits : \A y \in hits : y <= x]>>

\* the last committed insertion or deletion of the member with primary key k
LastMemberEffect(set, k) ==
    LastEffect(h.prev,
               LAMBDA e : \/ /\ e.op = "InsertIntoSet" /\ e.params[2] = set
                             /\ e.params[1].f[set_primary_key(set.s)] = k
                          \/ e.op = "DeleteFromSet" /\ e.params[2] = set /\ e.params[1] = k)

\* the last committed InsertIntoTable(f) into `table`
LastTableEffect(table, f) ==
    LastEffect(h.prev, LAMBDA e : e.op = "InsertIntoTable" /\ e.id = f /\ e.params[2] = table)

\* the completed GetField nodes of the live invocations, in a run that has
\* had no effect of its own so far: frame, node, and the node of its parameter
FieldReads ==
    {r \in UNION {{[fr |-> frames[f], g |-> GraphAt(frames[f].graph), j |-> j] :
                      j \in 1..Len(GraphAt(frames[f].graph).nodes)} : f \in LiveFrames} :
        /\ h.effects = <<>>
        /\ r.g.nodes[r.j].op = "GetField"
        /\ FieldKind(r.g.nodes[r.j].id) = "Primitive"
        /\ r.fr.results[r.j].kind = "Ok"
        /\ r.fr.results[r.g.nodes[r.j].in_edges[1]].kind = "Ok"
        /\ r.fr.results[r.g.nodes[r.j].in_edges[1]].val.t = "Table"}

\* a read: its field, its table, what it returned and the node the table came from
FieldOf(r) == r.g.nodes[r.j].id
TableOf(r) == r.fr.results[r.g.nodes[r.j].in_edges[1]].val
ValueOf(r) == r.fr.results[r.j].val
TableNodeOf(r) == r.g.nodes[r.g.nodes[r.j].in_edges[1]]

\* the reads of a field of the table GetSetElement(k, set) returned
MemberReads == {r \in FieldReads : TableNodeOf(r).op = "GetSetElement"}
KeyOf(r) == r.fr.results[TableNodeOf(r).in_edges[1]].val
SetOf(r) == r.fr.results[TableNodeOf(r).in_edges[2]].val

\* C14: after a committed run that executed InsertIntoSet(m, set), m fresh
\* with primary key k, a later run's GetSetElement(k, set) followed by
\* GetField(f) returns what m holds for f, for every primitive field f.
C14_InsertedMemberIsRead ==
    \A r \in MemberReads :
        LET e == LastMemberEffect(SetOf(r), KeyOf(r))
        IN  (e # <<>> /\ e[1].op = "InsertIntoSet") =>
                ValueOf(r) = e[1].params[1].f[FieldOf(r)]

\* C14 witness: a field of a member is read back after the member was
\* inserted twice under one key, with different values
C14_Witness ==
    \E r \in MemberReads :
        /\ Len(h.prev) = 2
        /\ LastMemberEffect(SetOf(r), KeyOf(r)) = <<h.prev[2]>>
        /\ h.prev[1].op = "InsertIntoSet" /\ h.prev[2].op = "InsertIntoSet"
        /\ h.prev[1].params[1].f[FieldOf(r)] # h.prev[2].params[1].f[FieldOf(r)]
        /\ h.prev[1].params[1].f["id"] = KeyOf(r)
        /\ IsPrimitive(ValueOf(r))

\* C15: after a committed DeleteFromSet(k, set) on a resident set, a later
\* run's GetSetElement(k, set) followed by GetField(f) returns a Null of f's
\* type for every primitive field f, whatever the member held before.
C15_DeletedMemberReadsNull ==
    \A r \in MemberReads :
        LET e == LastMemberEffect(SetOf(r), KeyOf(r))
        IN  (e # <<>> /\ e[1].op = "DeleteFromSet") =>
                ValueOf(r) = Null(FieldTy(FieldOf(r)))

\* C15 witness: the member was inserted with a value for the field, then
\* deleted, and the field is read
C15_Witness ==
    \E r \in MemberReads :
        /\ Len(h.prev) = 2
        /\ h.prev[1].op = "InsertIntoSet" /\ h.prev[1].params[2] = SetOf(r)
        /\ h.prev[1].params[1].f["id"] = KeyOf(r)
        /\ IsPrimitive(h.prev[1].params[1].f[FieldOf(r)])
        /\ h.prev[2].op = "DeleteFromSet" /\ h.prev[2].params[1] = KeyOf(r)
        /\ is_null(ValueOf(r))

C16_NeverWritten ==
    \E r \in FieldReads \ MemberReads :
        /\ kv = EmptyStore /\ h.prev = <<>>
        /\ ValueOf(r) = Null("Int64")

\* C17: once a call made by run_graph has answered with an error other than
\* a commit Conflict (begin_transaction, a node or the graph's loop, or commit
\* with another error), run_graph has returned that very error, and no
\* begin_transaction, commit or sleep_fn call has been made since
C17_ErrorsPropagateAtOnce ==
    h.raised # Unset =>
        /\ pc = "done"
        /\ outcome = h.raised
        /\ <<h.begins, h.commits, h.sleeps>> = h.raised_at

\* C17 witness: a node's error in an attempt that follows a commit conflict
\* and a sleep has been returned
C17_Witness ==
    /\ pc = "done"
    /\ h.raised # Unset
    /\ outcome = h.raised
    /\ h.conflicts >= 1
    /\ h.sleeps >= 1
    /\ h.commits < h.begins

\* C17 witnesses: an error of begin_transaction, and an error of commit other
\* than Conflict, have been returned
C17_BeginFailed == pc = "done" /\ h.raised # Unset /\ Len(txns) < h.begins
C17_CommitFailed ==
    pc = "done" /\ h.raised # Unset /\ txns # <<>> /\ txns[Len(txns)].state = "failed"

\* C18: a KvError::Conflict, of commit or of a KV operation of a node, is
\* never what run_graph returns: the attempt it was raised in is followed by
\* another attempt or by ConflictAfterRetries
C18_ConflictNeverReturned ==
    /\ pc = "done" => outcome.err # "KvError::Conflict"
    /\ h.raised.err = "KvError::Conflict" => pc # "done"

\* the Call futures whose sub-graph has been entered
EnteredCalls ==
    {fk \in FutureIds : ~frames[fk[1]].futures[fk[2]].sel
                          /\ frames[fk[1]].futures[fk[2]].child # 0}

\* C19: an optional-chained node dispatched with a Null among its parameters
\* issues no KV operation, leaves the write buffer alone, enters no
\* sub-graph, and resolves to a Null of its output type, or to no value when
\* it is an effect node
C19_NullShortCircuits ==
    /\ \A d \in h.short :
           /\ d.kvops = 0
           /\ ~d.wrote
           /\ d.r = Ok(IF d.ty = "" THEN NoneV ELSE Null(d.ty))
    /\ \A fk \in EnteredCalls :
           LET fr == frames[fk[1]]
               fut == fr.futures[fk[2]]
           IN  ~(is_optional_chained(GraphAt(fr.graph).nodes[fut.node])
                 /\ HasNull(fut.params))

\* C19 witness: an InsertIntoTable, a Call, a GetSetElement and a GetField
\* have each been dispatched with a Null parameter, and the run committed
C19_Witness ==
    /\ pc = "done"
    /\ outcome = Ok(Null("String"))
    /\ {d.op : d \in h.short} = {"InsertIntoTable", "Call", "GetSetElement", "GetField"}
    /\ h.entries = 1
    /\ kv = h.kv0

\* the nodes of live invocations that have a precondition
GatedNodes ==
    UNION {{[fr |-> frames[f], g |-> GraphAt(frames[f].graph), t |-> t] :
               t \in {j \in 1..Len(GraphAt(frames[f].graph).nodes) :
                         GraphAt(frames[f].graph).nodes[j].pre # 0}}
           : f \in LiveFrames}

\* what the precondition node of a gated node completed with (Unset before)
PreconditionOf(x) == x.fr.results[x.g.nodes[x.t].pre]

\* C20: a future has been pushed for a node with a precondition only if the
\* precondition node completed with Bool(true) or, an effect node, without a
\* value; after Bool(false) or a Null no future of the node exists, whether
\* its parameters arrived before or after
C20_GatedByPrecondition ==
    \A x \in GatedNodes :
        x.fr.starts[x.t] >= 1 =>
            /\ PreconditionOf(x).kind = "Ok"
            /\ PreconditionOf(x).val \in {Bool(TRUE), NoneV}

\* C20 witness: a gated write ran after its precondition Bool(true), and the
\* read gated by the write, an effect node, ran after it
C20_Witness ==
    \E x, y \in GatedNodes :
        /\ x.fr.starts[x.t] >= 1 /\ PreconditionOf(x) = Ok(Bool(TRUE))
        /\ y.fr.starts[y.t] >= 1 /\ PreconditionOf(y) = Ok(NoneV)

\* C20 witnesses: the parameters were complete before the precondition
\* arrived; the precondition arrived before the parameters; the graph ran
\* empty with the gated node suppressed by Bool(false) and by a Null
C20_ParamsFirst ==
    \E x \in GatedNodes :
        /\ PreconditionOf(x) = Unset
        /\ x.fr.deps_satisfied[x.t] # <<>>
        /\ DepsComplete(x.fr.deps_satisfied[x.t])
C20_PreconditionFirst ==
    \E x \in GatedNodes :
        /\ PreconditionOf(x) = Ok(Bool(TRUE))
        /\ x.fr.starts[x.t] = 0
        /\ ~DepsComplete(x.fr.deps_satisfied[x.t])
C20_SuppressedByFalse ==
    \E x \in GatedNodes :
        /\ PreconditionOf(x) = Ok(Bool(FALSE))
        /\ x.fr.futures = <<>>
        /\ x.fr.starts[x.t] = 0
        /\ DepsComplete(x.fr.deps_satisfied[x.t]) /\ x.fr.deps_satisfied[x.t] # <<>>
C20_SuppressedByNull ==
    \E x \in GatedNodes :
        /\ PreconditionOf(x) = Ok(Null("Bool"))
        /\ x.fr.futures = <<>>
        /\ x.fr.starts[x.t] = 0
        /\ DepsComplete(x.fr.deps_satisfied[x.t]) /\ x.fr.deps_satisfied[x.t] # <<>>

(***************************************************************************)
(* Properties of the planner.                                              *)
(***************************************************************************)
\* C9: migrating a plan P0 generated for schema S to the same schema S
\* gives every node the key its counterpart has in P0 and mints no key,
\* for sets, optional fields and recursive types too.
C9_SameSchemaReusesEveryKey ==
    (pl.step = "new" /\ M.old = M.new) =>
        /\ pl.err = ""
        /\ pl.p1 = pl.p0
        /\ pl.minted = <<>>

\* C9 witness: the recursive type with its subspace references, re-planned
C9_Witness ==
    /\ pl.step = "new" /\ M.old = SchemaTree /\ M.new = SchemaTree
    /\ pl.p1.nodes["tree"].children["left"].children["left"].subspace_reference
    /\ pl.p1.nodes["tree"].children["left"].children["left"].key
           = pl.p0.nodes["tree"].children["left"].key

\* C10: a field (or export) of type T in the old schema and Optional(T) in
\* the new one, name and @packed status unchanged, keeps its storage key.
C10_WideningKeepsKey ==
    (pl.step = "new" /\ M.widened # <<>>) =>
        KeyAt(pl.p1, M.widened) = KeyAt(pl.p0, M.widened)

\* the nodes of a plan that are not subspace references
OwnNodes(plan) == {x \in PlanNodes(plan) : ~x.subspace_reference}

\* x is a proper ancestor of y in the plan tree
IsAncestor(x, y) ==
    /\ Len(x.path) < Len(y.path)
    /\ SubSeq(y.path, 1, Len(x.path)) = x.path

\* C11 (as stated): in the plan generated from an empty old plan and an empty
\* old schema no two distinct nodes carry the same storage key.
C11_EveryKeyUnique ==
    (pl.step = "old" /\ pl.err = "") =>
        \A x, y \in PlanNodes(pl.p0) : x.path # y.path => x.key # y.key

\* C11 (amended): in the plan generated from an empty old plan and an empty
\* old schema no two distinct nodes that are not subspace references carry the
\* same storage key, and a subspace reference carries the key of one of its
\* ancestors, a node that is not a subspace reference.
C11_EveryOwnKeyUnique ==
    (pl.step = "old" /\ pl.err = "") =>
        /\ \A x, y \in OwnNodes(pl.p0) : x.path # y.path => x.key # y.key
        /\ \A y \in PlanNodes(pl.p0) \ OwnNodes(pl.p0) :
               \E x \in OwnNodes(pl.p0) : IsAncestor(x, y) /\ x.key = y.key

\* C11 witness: a fresh plan for the recursive BinaryTree schema, with more
\* nodes of its own than the random source has keys, and a subspace reference.
C11_Witness ==
    /\ pl.step = "old" /\ pl.err = "" /\ M.old = SchemaTree
    /\ Cardinality(OwnNodes(pl.p0)) > MaxKey
    /\ PlanNodes(pl.p0) # OwnNodes(pl.p0)

\* C12: in the plan returned by generate_plan_for_schema, for any old plan,
\* old schema and new schema (@rename_from included), no two distinct nodes
\* that are not subspace references carry the same storage key.
C12_MigratedKeysUnique ==
    (pl.step = "new" /\ pl.err = "") =>
        \A x, y \in OwnNodes(pl.p1) : x.path # y.path => x.key # y.key

\* C13: every key minted during one generate_plan_for_schema call differs
\* from every key of the old plan (kept, dropped or retyped fields alike) and
\* from every other key minted in the call.
C13_MintedKeysFresh ==
    pl.step = "new" =>
        /\ \A m \in 1..Len(pl.minted) : pl.minted[m] \notin PlanKeys(pl.p0)
        /\ \A m, n \in 1..Len(pl.minted) : m # n => pl.minted[m] # pl.minted[n]

\* C13 witness: a migration that drops keys of the old plan and mints at
\* least two keys, within the range the random source draws from.
C13_Witness ==
    /\ pl.step = "new" /\ pl.err = ""
    /\ PlanKeys(pl.p0) \ PlanKeys(pl.p1) # {}
    /\ Len(pl.minted) >= 2
    /\ \E k \in PlanKeys(pl.p0) : k <= MaxKey

\* the named type a field type stands for, under its Optional and Set wrappers
RECURSIVE NamedOf(_)
NamedOf(ty) ==
    CASE ty.k = "Named" -> {ty.name}
      [] ty.k = "Primitive" -> {}
      [] OTHER -> NamedOf(ty.inner[1])

\* the named types of the fields of type `name`
FieldTypes(schema, name) ==
    IF name \notin DOMAIN schema.types THEN {}
    ELSE UNION {NamedOf(schema.types[name][f].ty) : f \in 1..Len(schema.types[name])}

Grow(schema, names) == names \cup UNION {FieldTypes(schema, n) : n \in names}

RECURSIVE ReachableTypes(_, _)
ReachableTypes(schema, names) ==
    IF Grow(schema, names) = names THEN names
    ELSE ReachableTypes(schema, Grow(schema, names))

\* whether the type can reach itself through its fields
ReachesItself(schema, name) == name \in ReachableTypes(schema, FieldTypes(schema, name))

\* the type of field `c` of type `name`
TypeOfField(schema, name, c) ==
    LET fields == schema.types[name]
    IN  fields[CHOOSE f \in 1..Len(fields) : fields[f].name = c].ty

\* the nodes of a plan below (and including) `node`, each with the named
\* type it was generated for ("" for a primitive or a set) and the address
\* of that type occurrence in the schema
RECURSIVE TypedNodes(_, _, _, _, _)
TypedNodes(schema, ty, addr, node, path) ==
    CASE ty.k = "Optional" -> TypedNodes(schema, ty.inner[1], BoxAddr(addr), node, path)
      [] ty.k = "Primitive" -> {[path |-> path, type |-> "", kind |-> ty.k, addr |-> addr, node |-> node]}
      [] ty.k = "Set" ->
            {[path |-> path, type |-> "", kind |-> ty.k, addr |-> addr, node |-> node]}
                \cup (IF node.set = <<>> THEN {}
                      ELSE TypedNodes(schema, ty.inner[1], BoxAddr(addr), node.set[1],
                                      Append(path, "[]")))
      [] OTHER ->
            {[path |-> path, type |-> ty.name, kind |-> ty.k, addr |-> addr,
              node |-> node]}
                \cup UNION {TypedNodes(schema, TypeOfField(schema, ty.name, c),
                                       FieldAddr(ty.name, c), node.children[c],
                                       Append(path, c)) :
                                c \in DOMAIN node.children}

TypedPlanNodes(schema, plan) ==
    UNION {TypedNodes(schema, schema.exports[e].ty, ExportAddr(schema.exports[e].name),
                      plan.nodes[schema.exports[e].name], <<schema.exports[e].name>>) :
               e \in {x \in 1..Len(schema.exports) : schema.exports[x].name \in DOMAIN plan.nodes}}

\* the plans generated so far, each with the schema it was generated for
GeneratedPlans ==
    (IF pl.step \in {"old", "new"} /\ pl.p0.nodes # EmptyMap
     THEN {[schema |-> M.old, plan |-> pl.p0]} ELSE {})
        \cup (IF pl.step = "new" /\ pl.err = ""
              THEN {[schema |-> M.new, plan |-> pl.p1]} ELSE {})

\* C21: in every generated plan a node with flattened = true stands for a
\* named type that cannot reach itself through its fields; the export root
\* of the recursive BinaryTree is not flattened.
C21_FlattenedNotRecursive ==
    \A gp \in GeneratedPlans :
        \A x \in TypedPlanNodes(gp.schema, gp.plan) :
            x.node.flattened => x.type # "" /\ ~ReachesItself(gp.schema, x.type)

\* the nodes generated for the same type occurrence as x, further up the
\* path: the occurrence of x was on the generation stack
Enclosing(nodes, x) ==
    {y \in nodes : IsAncestor(y, x) /\ y.addr = x.addr /\ x.type # ""}

\* C22: the node generated for a named type occurrence that is already on
\* the generation stack is a subspace reference, not flattened, not packed,
\* without set node and children, and carries the key of the enclosing node
\* of the same occurrence, which is neither flattened nor a subspace
\* reference.
C22_BackEdge ==
    \A gp \in GeneratedPlans :
        \A x \in TypedPlanNodes(gp.schema, gp.plan) :
            Enclosing(TypedPlanNodes(gp.schema, gp.plan), x) # {} =>
                /\ x.node.subspace_reference
                /\ ~x.node.flattened
                /\ ~x.node.packed
                /\ x.node.set = <<>>
                /\ x.node.children = EmptyMap
                /\ \A y \in Enclosing(TypedPlanNodes(gp.schema, gp.plan), x) :
                       /\ y.node.key = x.node.key
                       /\ ~y.node.flattened
                       /\ ~y.node.subspace_reference

\* C22 witness: a migrated plan of the recursive BinaryTree with the
\* back-edges tree.left.left and tree.left.right.right, and a plan of Dir
\* whose back-edge is the element of a set
C22_Witness ==
    \E gp \in GeneratedPlans :
        /\ pl.step = "new"
        /\ gp.plan = pl.p1
        /\ \E x, z \in TypedPlanNodes(gp.schema, gp.plan) :
              /\ x.path = <<"tree", "left", "left">>
              /\ z.path = <<"tree", "left", "right", "right">>
              /\ Enclosing(TypedPlanNodes(gp.schema, gp.plan), x) # {}
              /\ Enclosing(TypedPlanNodes(gp.schema, gp.plan), z) # {}
              /\ x.node.key # z.node.key

\* C22 witness, the other shape: the back-edge is the element node of a set
C22_SetBackEdge ==
    \E gp \in GeneratedPlans :
        \E x \in TypedPlanNodes(gp.schema, gp.plan) :
            /\ x.path[Len(x.path)] = "[]"
            /\ Enclosing(TypedPlanNodes(gp.schema, gp.plan), x) # {}

\* every subspace reference of a generated plan has an enclosing node of its
\* own occurrence
C22_EveryReferenceIsBackEdge ==
    \A gp \in GeneratedPlans :
        \A x \in TypedPlanNodes(gp.schema, gp.plan) :
            x.node.subspace_reference =>
                Enclosing(TypedPlanNodes(gp.schema, gp.plan), x) # {}

\* the named types of the exports of a schema
ExportTypes(schema) == UNION {NamedOf(schema.exports[e].ty) : e \in 1..Len(schema.exports)}

\* the named types reachable from an export that the schema does not define
MissingTypes(schema) == ReachableTypes(schema, ExportTypes(schema)) \ DOMAIN schema.types

\* the calls of generate_plan_for_schema made so far: the new schema, the
\* error ("" for Ok) and the plan
PlannerCalls ==
    (IF pl.step = "old" THEN {[schema |-> M.old, err |-> pl.err, plan |-> pl.p0]} ELSE {})
        \cup (IF pl.step = "new" THEN {[schema |-> M.new, err |-> pl.err, plan |-> pl.p1]}
              ELSE {})

\* C23: generate_plan_for_schema fails with MissingType(name), and returns
\* no plan, whenever a field reachable from an export of the new schema has
\* a Named type the schema does not define, a @packed field included.
C23_MissingTypeFails ==
    \A c \in PlannerCalls :
        MissingTypes(c.schema) # {} =>
            /\ c.err \in MissingTypes(c.schema)
            /\ c.plan = StoragePlan(EmptyMap)

\* the fields of the schema's types that are @packed and of an undefined type
PackedMissing(schema) ==
    {<<n, f>> \in UNION {{<<t, g>> : g \in 1..Len(schema.types[t])} : t \in DOMAIN schema.types} :
        /\ is_packed(schema.types[n][f].annotations)
        /\ NamedOf(schema.types[n][f].ty) \ DOMAIN schema.types # {}}

\* what holds of the code: the error is raised when the undefined type is
\* that of an export or of a field that is not @packed
C23_UnpackedMissingTypeFails ==
    \A c \in PlannerCalls :
        (MissingTypes(c.schema) # {} /\ PackedMissing(c.schema) = {}) =>
            /\ c.err \in MissingTypes(c.schema)
            /\ c.plan = StoragePlan(EmptyMap)

\* the error is raised for a field, for the member of an exported set, and
\* in the first as in the second call
C23_FieldMissing ==
    pl.step = "new" /\ M.new = SchemaMissing /\ pl.err = "Ghost" /\ pl.p0.nodes # EmptyMap
C23_ExportMissing == pl.step = "new" /\ M.new = SchemaMissingExport /\ pl.err = "Ghost"
C23_FirstPlanMissing == pl.step = "old" /\ M.old = SchemaMissing /\ pl.err = "Ghost"


(***************************************************************************)
(* Reduce over a List.                                                     *)
(***************************************************************************)
\* the invocations of the sub-graph made for the Reduce future `at`, in order
VisitsOf(at) == SelectSeq(h.visits, LAMBDA v : v.at = at)

\* the Reduce futures that have called their sub-graph in this attempt
Reducing == {h.visits[j].at : j \in 1..Len(h.visits)}

\* the j-th invocation for a Reduce over a list got (subgraph_param, the
\* non-null output of the invocation before it or reduce_init, the j-th element)
ListVisitInOrder(vs, j) ==
    /\ j <= Len(vs[1].of[3].f)
    /\ vs[j].params[1] = vs[1].of[1]
    /\ vs[j].params[3] = vs[1].of[3].f[j]
    /\ IF j = 1 THEN vs[j].params[2] = vs[1].of[2]
       ELSE /\ vs[j - 1].out \notin {Unset, NoneV}
            /\ ~is_null(vs[j - 1].out)
            /\ vs[j].params[2] = vs[j - 1].out

\* the Reduce ended after an invocation that returned Null, or after the
\* last element, with the last non-null accumulator
ListReduceEnded(vs, result) ==
    /\ vs[Len(vs)].out \notin {Unset, NoneV}
    /\ Len(vs) < Len(vs[1].of[3].f) => is_null(vs[Len(vs)].out)
    /\ result = IF is_null(vs[Len(vs)].out) THEN vs[Len(vs)].params[2] ELSE vs[Len(vs)].out

\* C24: Reduce over a List invokes the sub-graph once per element in list
\* order with (subgraph_param, accumulator, element), the accumulator being
\* the non-null result of the previous invocation (reduce_init for the
\* first); at the first Null result it stops, visits no further element,
\* and its result is the last non-null accumulator
C24_ReduceOverList ==
    /\ \A at \in Reducing :
          VisitsOf(at)[1].of[3].t = "List" =>
              \A j \in 1..Len(VisitsOf(at)) : ListVisitInOrder(VisitsOf(at), j)
    /\ \A r \in h.reduced :
          r.params[3].t = "List" =>
              IF r.params[3].f = <<>>
              THEN VisitsOf(r.at) = <<>> /\ r.result = r.params[2]
              ELSE VisitsOf(r.at) # <<>> /\ ListReduceEnded(VisitsOf(r.at), r.result)

\* C24 witness: a Reduce over a list of three elements has ended after its
\* second invocation returned Null: the third element was not visited and
\* the result is the output of the first invocation
C24_Witness ==
    \E r \in h.reduced :
        /\ r.params[3].t = "List" /\ Len(r.params[3].f) = 3
        /\ Len(VisitsOf(r.at)) = 2
        /\ is_null(VisitsOf(r.at)[2].out)
        /\ r.result = VisitsOf(r.at)[1].out
        /\ r.result # r.params[2]

\* a Reduce over a list visited every element and returned the output of
\* the last invocation
C24_AllVisited ==
    \E r \in h.reduced :
        /\ r.params[3].t = "List" /\ Len(VisitsOf(r.at)) = 3
        /\ r.result = VisitsOf(r.at)[3].out
        /\ outcome = Ok(r.result)

\* a Reduce over a list whose first invocation returned Null returned
\* reduce_init
C24_StoppedAtFirst ==
    \E r \in h.reduced :
        /\ r.params[3].t = "List" /\ Len(VisitsOf(r.at)) = 1
        /\ r.result = r.params[2]


(***************************************************************************)
(* Reduce over a resident Set.                                             *)
(***************************************************************************)
\* the serialized primary keys of the members of the set at `path`: those
\* with a table stored in the set's data subspace
MemberKeys(store, path) ==
    {SubSeq(k, Len(path) + 2, Len(k) - 1) :
        k \in {x \in DOMAIN store :
                  /\ Len(x) >= Len(path) + 3
                  /\ SubSeq(x, 1, Len(path) + 1) = set_data_prefix(path)
                  /\ x[Len(x)] = 0 /\ store[x] = EmptyValue}}

\* whether the serialized primary key lies within the bounds of the Reduce
WithinBounds(pk, ranged, of) ==
    /\ (ranged /\ ~is_null(of[4])) =>
           (serialize_for_key_component(of[4]) = pk
               \/ KeyLess(serialize_for_key_component(of[4]), pk))
    /\ (ranged /\ ~is_null(of[5])) => KeyLess(pk, serialize_for_key_component(of[5]))

RECURSIVE Increasing(_)
Increasing(pks) ==
    IF pks = {} THEN <<>>
    ELSE <<Least(pks)>> \o Increasing(pks \ {Least(pks)})

\* the members the Reduce is to visit, in order
ToVisit(store, ranged, of) ==
    Increasing({pk \in MemberKeys(store, of[3].p) : WithinBounds(pk, ranged, of)})

\* the member of the set with that serialized primary key
MemberAt(set, pk) == ResidentTable(set.s, set_data_prefix(set.p) \o pk \o <<0>>)

\* C25: Reduce over a resident Set visits, in ascending order of the
\* serialized primary key, exactly the members of that set with
\* start <= pk (start non-null) and pk < end (end non-null); without a
\* range, or with both bounds Null, every member and no key of another set
C25_ReduceOverSet ==
    /\ \A at \in Reducing :
          VisitsOf(at)[1].of[3].t = "Set" =>
              \A j \in 1..Len(VisitsOf(at)) :
                  /\ j <= Len(ToVisit(kv, VisitsOf(at)[1].ranged, VisitsOf(at)[1].of))
                  /\ VisitsOf(at)[j].params[3]
                        = MemberAt(VisitsOf(at)[1].of[3],
                                   ToVisit(kv, VisitsOf(at)[1].ranged, VisitsOf(at)[1].of)[j])
    /\ \A r \in h.reduced :
          r.params[3].t = "Set" =>
              Len(VisitsOf(r.at)) = Len(ToVisit(kv, r.ranged, r.params))

\* C25 witness: a Reduce over a set of three members, next to two other
\* sets, with one bound Null and the other not, has ended having visited
\* some but not all of the members
C25_Witness ==
    \E r \in h.reduced :
        /\ r.params[3].t = "Set" /\ r.ranged
        /\ is_null(r.params[4]) # is_null(r.params[5])
        /\ Cardinality(MemberKeys(kv, r.params[3].p)) = 3
        /\ Len(VisitsOf(r.at)) \in {1, 2}
        /\ \A j \in 1..Len(VisitsOf(r.at)) :
              VisitsOf(r.at)[j].out = StringV(CHOOSE id \in {"test_id", "other_id", "zed"} :
                  MemberAt(r.params[3], serialize_for_key_component(StringV(id)))
                      = VisitsOf(r.at)[j].params[3])

\* a Reduce without a range visited every member
C25_AllWithoutRange ==
    \E r \in h.reduced : r.params[3].t = "Set" /\ ~r.ranged /\ Len(VisitsOf(r.at)) = 3

\* a Reduce with both bounds Null visited every member
C25_AllWithNullBounds ==
    \E r \in h.reduced :
        /\ r.params[3].t = "Set" /\ r.ranged
        /\ is_null(r.params[4]) /\ is_null(r.params[5])
        /\ Len(VisitsOf(r.at)) = 3

\* a Reduce with two bounds visited the members between them
C25_Between ==
    \E r \in h.reduced :
        /\ r.params[3].t = "Set" /\ r.ranged
        /\ ~is_null(r.params[4]) /\ ~is_null(r.params[5])
        /\ Len(VisitsOf(r.at)) = 2

\* a Reduce with an empty range visited nothing and returned reduce_init
C25_EmptyRange ==
    \E r \in h.reduced :
        /\ r.params[3].t = "Set" /\ r.ranged
        /\ VisitsOf(r.at) = <<>>
        /\ r.result = r.params[2]


(***************************************************************************)
(* sleep_fn.                                                               *)
(***************************************************************************)
\* C26: with sleep_fn installed, a call of run_graph that made k attempts
\* has awaited sleep_fn exactly k-1 times, each time after a commit
\* Conflict and before the next begin_transaction, never after the final
\* attempt
C26_SleepOnlyBetweenAttempts ==
    (S.sleep_fn /\ h.begins >= 1) =>
        /\ pc = "done" => h.sleeps = h.begins - 1
        /\ pc = "running" => h.sleeps = h.begins - 1
        /\ h.sleeps <= h.conflicts

\* the same for the calls that end otherwise than by ConflictAfterRetries:
\* one sleep after every Conflict, each followed by another attempt
C26_SleepBeforeRetry ==
    (S.sleep_fn /\ h.begins >= 1 /\ outcome # Err("ConflictAfterRetries")) =>
        /\ pc \in {"done", "running"} => h.sleeps = h.begins - 1
        /\ pc = "sleep" => h.sleeps = h.conflicts - 1
        /\ pc # "sleep" => h.sleeps = h.conflicts

\* a call with sleep_fn has returned after three attempts and two sleeps
C26_SleptBetween ==
    /\ S.sleep_fn /\ pc = "done" /\ outcome.kind = "Ok"
    /\ h.begins = 3 /\ h.sleeps = 2

\* a call with sleep_fn has returned ConflictAfterRetries after as many
\* sleeps as attempts
C26_SleptAfterLast ==
    /\ S.sleep_fn /\ pc = "done" /\ outcome = Err("ConflictAfterRetries")
    /\ h.begins = MAX_ATTEMPTS /\ h.sleeps = MAX_ATTEMPTS


(***************************************************************************)
(* yield_fn.                                                               *)
(***************************************************************************)
\* the calls of recursively_run_graph made for the elements of a Reduce in
\* the current attempt
ReduceEntries == Len(h.visits)

C27_YieldedForCalls ==
    /\ S.yield_fn /\ pc = "done" /\ outcome.kind = "Ok"
    /\ h.execs = 2 /\ ReduceEntries = 0
    /\ h.yields > h.execs

\* with yield_fn installed, a call of recursively_run_graph has returned
\* MaxRecursionDepthExceeded without awaiting yield_fn
C27_RejectedCall ==
    /\ S.yield_fn /\ pc = "done"
    /\ outcome = ErrMsg("MaxRecursionDepthExceeded", "")
    /\ h.rejected = 1 /\ h.yields = h.calls - 1


(***************************************************************************)
(* delete_set.                                                             *)
(***************************************************************************)
HasPrefix(k, prefix) == Len(k) >= Len(prefix) /\ SubSeq(k, 1, Len(prefix)) = prefix

\* whether the key lies in the fast-scan or the data subspace of the set at `path`
UnderSet(k, path) ==
    HasPrefix(k, set_fast_scan_prefix(path)) \/ HasPrefix(k, set_data_prefix(path))

\* whether the key belongs to one of the members of the set literal
OfLiteral(k, path, literal) ==
    \E pk \in DOMAIN literal.f :
        \/ k = set_fast_scan_prefix(path) \o pk
        \/ HasPrefix(k, set_data_prefix(path) \o pk \o <<0>>)

\* the sets the committed run has cleared: the walker and the literal of
\* every InsertIntoTable of a set literal
ClearedSets ==
    {[path |-> enter_field(h.prev[j].params[2].p, h.prev[j].id),
      literal |-> h.prev[j].params[1]] :
        j \in {x \in 1..Len(h.prev) : /\ h.prev[x].op = "InsertIntoTable"
                                      /\ h.prev[x].params[1].t = "Set"}}

\* a single run has committed, having stored one set literal
ClearedOnce ==
    /\ pc = "done" /\ outcome.kind = "Ok" /\ ~h.chained
    /\ Len(h.prev) = 1 /\ Cardinality(ClearedSets) = 1

\* C28: clearing a set through delete_set removes every key under the
\* set's fast-scan prefix and data prefix (what is there afterwards belongs
\* to the members of the literal) and no other key: the keys of sibling
\* fields, of other sets and of enclosing tables are unchanged
C28_DeleteSetExact ==
    ClearedOnce =>
        \A c \in ClearedSets :
            /\ \A k \in DOMAIN kv : UnderSet(k, c.path) => OfLiteral(k, c.path, c.literal)
            /\ \A k \in DOMAIN h.kv0 \cup DOMAIN kv :
                  (~UnderSet(k, c.path) /\ k # c.path) => StoreGet(kv, k) = StoreGet(h.kv0, k)

\* C28 witness: the set `tags` of a member of some_item, which held members,
\* has been cleared; its siblings `lo` and `hi`, the enclosing member, the
\* other member's `tags` and the set `tags` of item are as before
C28_Witness ==
    /\ ClearedOnce
    /\ \E c \in ClearedSets :
          /\ Len(c.path) > 1 /\ c.literal.f = <<>>
          /\ Cardinality({k \in DOMAIN h.kv0 : UnderSet(k, c.path)}) >= 4
          /\ {k \in DOMAIN kv : UnderSet(k, c.path)} = {}
          /\ \E k \in DOMAIN kv : KeyLess(k, c.path) /\ HasPrefix(k, SubSeq(c.path, 1, Len(c.path) - 1))
          /\ \E k \in DOMAIN kv : KeyLess(c.path, k) /\ HasPrefix(k, SubSeq(c.path, 1, Len(c.path) - 1))
          /\ \E k \in DOMAIN kv : UnderSet(k, <<StorageKeyOf("tags")>>)

\* the set `tags` of item has been replaced by a literal with one member
C28_Replaced ==
    /\ ClearedOnce
    /\ \E c \in ClearedSets :
          /\ Len(c.path) = 1 /\ c.literal.f # <<>>
          /\ {k \in DOMAIN kv : UnderSet(k, c.path)} # {}
          /\ \E k \in DOMAIN h.kv0 : UnderSet(k, c.path) /\ k \notin DOMAIN kv


(***************************************************************************)
(* Throw.                                                                  *)
(***************************************************************************)
\* C29: when a Throw node executes, run_graph fails with
\* ScriptThrownError(m) if the node's parameter is the string m and with
\* ScriptThrownNull if it is Null; the transaction is not committed and the
\* attempt is not retried
C29_ThrowFailsRun ==
    h.thrown # <<>> =>
        /\ Len(h.thrown) = 1
        /\ pc = "done"
        /\ h.thrown[1].t = "String" => outcome = ErrMsg("ScriptThrownError", h.thrown[1].s)
        /\ is_null(h.thrown[1]) => outcome = Err("ScriptThrownNull")
        /\ txns[Len(txns)].state = "dropped"
        /\ h.commits = h.begins - 1
        /\ h.raised_at[1] = h.begins
        /\ h.accepted = 0 /\ kv = h.kv0

\* C29 witness: a Throw has executed with a string after a write of the
\* same attempt: the run failed with the string and the write is not in
\* the store
C29_Witness ==
    /\ h.thrown # <<>> /\ h.thrown[1].t = "String"
    /\ outcome = ErrMsg("ScriptThrownError", h.thrown[1].s)
    /\ txns[Len(txns)].writes # EmptyStore
    /\ kv = h.kv0

\* a Throw has executed with a Null
C29_ThrownNull ==
    /\ h.thrown # <<>> /\ is_null(h.thrown[1])
    /\ outcome = Err("ScriptThrownNull")
    /\ h.commits = 0


(***************************************************************************)
(* @rename_from.                                                           *)
(***************************************************************************)
\* the previous names a field is annotated with
PrevNames(field) ==
    {field.annotations[a].from :
        a \in {x \in 1..Len(field.annotations) : field.annotations[x].kind = "RenameFrom"}}

\* the nodes of the old plan an unchanged path leads to, for a node of the
\* new plan that was generated for the same named type with the same key
CarriedOver(x) ==
    {o \in TypedPlanNodes(M.old, pl.p0) :
        /\ o.path = x.path /\ o.type = x.type
        /\ o.node.key = x.node.key
        /\ ~o.node.subspace_reference}

\* whether the old type has the field, with the type and the @packed status
\* of the new field
SameInOld(type_name, name, field) ==
    /\ Get(M.old.types[type_name], name) # <<>>
    /\ Get(M.old.types[type_name], name)[1].ty = field.ty
    /\ is_packed(Get(M.old.types[type_name], name)[1].annotations) = is_packed(field.annotations)

\* the claim for the field `f`, annotated with `prev`, of the new node x
\* whose old node is o
RenameReuses(x, o, f, prev) ==
    /\ (/\ f.name \notin DOMAIN o.node.children
        /\ prev \in DOMAIN o.node.children
        /\ SameInOld(x.type, prev, f))
           => x.node.children[f.name].key = o.node.children[prev].key
    /\ (f.name \in DOMAIN o.node.children /\ SameInOld(x.type, f.name, f))
           => x.node.children[f.name].key = o.node.children[f.name].key
    /\ (/\ f.name \in DOMAIN o.node.children
        /\ prev \in DOMAIN o.node.children
        /\ o.node.children[prev].key # o.node.children[f.name].key)
           => x.node.children[f.name].key # o.node.children[prev].key

\* the nodes of the new plan that have fields: generated for a named type,
\* neither packed nor a subspace reference
TableNodes ==
    {x \in TypedPlanNodes(M.new, pl.p1) :
        x.type # "" /\ ~x.node.packed /\ ~x.node.subspace_reference}

\* C30: a field annotated @rename_from(prev), with no old field under its
\* new name and an old field prev of the same type and @packed status,
\* gets the storage key of the old field prev; an old field under the new
\* name is preferred over prev
C30_RenameFromReusesKey ==
    (pl.step = "new" /\ pl.err = "") =>
        \A x \in TableNodes : \A o \in CarriedOver(x) :
            \A fi \in 1..Len(M.new.types[x.type]) :
                \A prev \in PrevNames(M.new.types[x.type][fi]) :
                    RenameReuses(x, o, M.new.types[x.type][fi], prev)

\* C30 witness: Item.a was renamed to c: no old field c, and the node of c
\* has the key of the old node of a
C30_Witness ==
    /\ pl.step = "new" /\ pl.err = ""
    /\ M.old = SchemaItem /\ M.new = SchemaItemRenamed
    /\ "c" \notin DOMAIN pl.p0.nodes["item"].children
    /\ pl.p1.nodes["item"].children["c"].key = pl.p0.nodes["item"].children["a"].key
    /\ \E x \in TableNodes : CarriedOver(x) # {}

\* the old type has both a and c: the node of c keeps the key of the old c
C30_NewNamePreferred ==
    /\ pl.step = "new" /\ pl.err = ""
    /\ M.old = SchemaItemAlias /\ M.new = SchemaItemPrefer
    /\ pl.p1.nodes["item"].children["c"].key = pl.p0.nodes["item"].children["c"].key
    /\ pl.p1.nodes["item"].children["c"].key # pl.p0.nodes["item"].children["a"].key

\* a renamed field whose type changed gets a key of its own
C30_TypeChanged ==
    /\ pl.step = "new" /\ pl.err = ""
    /\ M.new = SchemaItemRenamedStr
    /\ pl.p1.nodes["item"].children["c"].key \notin PlanKeys(pl.p0)

\* a renamed @packed field keeps its key
C30_PackedRenamed ==
    /\ pl.step = "new" /\ pl.err = ""
    /\ M.new = SchemaPackedRenamed
    /\ pl.p1.nodes["outer"].children["core"].key = pl.p0.nodes["outer"].children["inner"].key

\* a renamed field that is no longer @packed gets a key of its own
C30_UnpackedRenamed ==
    /\ pl.step = "new" /\ pl.err = ""
    /\ M.new = SchemaUnpackedRenamed
    /\ pl.p1.nodes["outer"].children["core"].key # pl.p0.nodes["outer"].children["inner"].key

\* a renamed field of a recursive type keeps its key, and so does the
\* subspace reference below it
C30_RecursiveRenamed ==
    /\ pl.step = "new" /\ pl.err = ""
    /\ M.new = SchemaTreeRenamed
    /\ pl.p1.nodes["tree"].children["l"].key = pl.p0.nodes["tree"].children["left"].key
    /\ pl.p1.nodes["tree"].children["l"].children["l"].key
           = pl.p0.nodes["tree"].children["left"].children["left"].key

(***************************************************************************)
(* The kinds of storage nodes.                                             *)
(***************************************************************************)
\* which of packed, subspace_reference, flattened and `set is present` hold
\* of a node
KindFlags(node) ==
    {f \in {"packed", "subspace_reference", "flattened", "set"} :
        \/ f = "packed" /\ node.packed
        \/ f = "subspace_reference" /\ node.subspace_reference
        \/ f = "flattened" /\ node.flattened
        \/ f = "set" /\ node.set # <<>>}

\* C31: every node of every generated plan is of one kind: at most one of
\* packed, subspace_reference, flattened and `set is present` holds of it;
\* packed, subspace-reference and primitive nodes have neither children nor
\* a set node, and a set node has no children of its own
C31_OneKindPerNode ==
    \A gp \in GeneratedPlans :
        \A x \in TypedPlanNodes(gp.schema, gp.plan) :
            /\ Cardinality(KindFlags(x.node)) <= 1
            /\ (x.node.packed \/ x.node.subspace_reference \/ x.kind = "Primitive") =>
                   x.node.children = EmptyMap /\ x.node.set = <<>>
            /\ x.node.set # <<>> => x.node.children = EmptyMap

\* C31 witness: a migrated plan of Dir, with a named node that is not
\* flattened, a primitive leaf, a set node and a subspace reference as the
\* set's element
C31_Witness ==
    \E gp \in GeneratedPlans :
        /\ pl.step = "new"
        /\ gp.plan = pl.p1
        /\ \E w, x, y, z \in TypedPlanNodes(gp.schema, gp.plan) :
              /\ w.kind = "Named" /\ KindFlags(w.node) = {} /\ w.node.children # EmptyMap
              /\ x.kind = "Primitive" /\ KindFlags(x.node) = {}
              /\ y.kind = "Set" /\ KindFlags(y.node) = {"set"}
              /\ z.kind = "Named" /\ KindFlags(z.node) = {"subspace_reference"}

\* the other kinds: a migrated plan with a flattened node and a packed leaf
C31_PackedAndFlattened ==
    \E gp \in GeneratedPlans :
        /\ pl.step = "new"
        /\ gp.plan = pl.p1
        /\ \E x, y \in TypedPlanNodes(gp.schema, gp.plan) :
              /\ KindFlags(x.node) = {"flattened"} /\ x.node.children # EmptyMap
              /\ KindFlags(y.node) = {"packed"} /\ y.kind = "Named"

(***************************************************************************)
(* Fresh tables and sets as the target of an access or an effect.          *)
(***************************************************************************)
\* C32, as stated: GetSetElement, InsertIntoSet, DeleteFromSet and Reduce on
\* a Fresh set, and InsertIntoTable on a Fresh table, fail with
\* FreshTableOrSetNotSupported and issue no KV write
C32_FreshRejected ==
    \A d \in h.fresh :
        /\ d.r.kind = "Err" /\ d.r.err = "FreshTableOrSetNotSupported"
        /\ ~d.wrote /\ d.wkeys = {}

\* no node with a Fresh target issues a KV write
C32_FreshNeverWritten == \A d \in h.fresh : ~d.wrote /\ d.wkeys = {}

\* whether InsertIntoSet finds a primitive under the primary key of the value
KeyReadable(d) ==
    d.op = "InsertIntoSet" =>
        IsPrimitive(read_table_element(kv, EmptyStore, FALSE, d.params[1],
                                       set_primary_key(d.params[2].s)))

\* what holds of the code: the node is rejected when none of its parameters
\* is a Null and, for InsertIntoSet, the primary key of the value is read as
\* a primitive
C32_FreshRejectedWhenRun ==
    \A d \in h.fresh :
        (~HasNull(d.params) /\ KeyReadable(d)) =>
            /\ d.r.kind = "Err" /\ d.r.err = "FreshTableOrSetNotSupported"
            /\ ~d.wrote /\ d.wkeys = {}

\* every one of the five ops was rejected on a Fresh target, InsertIntoSet
\* also for a resident value
C32_RejectedOp(op) ==
    /\ pc = "done" /\ outcome = Err("FreshTableOrSetNotSupported")
    /\ h.commits = 0
    /\ \E d \in h.fresh : d.op = op /\ d.r = outcome
C32_RejectedGet == C32_RejectedOp("GetSetElement")
C32_RejectedInsert == C32_RejectedOp("InsertIntoSet") /\ S.script = InsertResident("test_id", OneMember)
C32_RejectedDelete == C32_RejectedOp("DeleteFromSet")
C32_RejectedReduce == C32_RejectedOp("Reduce")
C32_RejectedTable == C32_RejectedOp("InsertIntoTable")

\* InsertIntoSet of a member the store does not hold, into a set literal:
\* the panic of unwrap_primitive comes before the look at the set
C32_PanicBeforeRejection ==
    /\ pc = "done" /\ outcome.kind = "Panic"
    /\ \E d \in h.fresh : d.op = "InsertIntoSet" /\ d.r.kind = "Panic" /\ ~HasNull(d.params)

\* InsertIntoTable of a Null into a table literal is short-circuited
C32_ShortCircuited ==
    /\ pc = "done" /\ outcome.kind = "Ok"
    /\ \E d \in h.fresh : d.op = "InsertIntoTable" /\ d.r.kind = "Ok" /\ HasNull(d.params)

(***************************************************************************)
(* Add and Sub on Int64.                                                   *)
(***************************************************************************)
\* whether x is the value of y reduced modulo 2^IntBits into the signed range
WrapsTo(x, y) == x \in MinInt..MaxInt /\ (x - y) % Modulus = 0

\* C33: Add and Sub on two Int64 values never fail and return the wrapping
\* result, (l + r) and (l - r) reduced modulo 2^w into the signed range of
\* the width; and Sub(Add(l, r), r) = l
C33_AddSubWrap ==
    /\ \A d \in h.arith :
          /\ d.out.kind = "Ok"
          /\ d.out.val.t = "Int64"
          /\ d.op = "Add" => WrapsTo(d.out.val.n, d.l + d.r)
          /\ d.op = "Sub" => WrapsTo(d.out.val.n, d.l - d.r)
    /\ \A a, b \in h.arith :
          (a.op = "Add" /\ b.op = "Sub" /\ b.l = a.out.val.n /\ b.r = a.r) =>
              b.out.val.n = a.l

\* C33 witness: a sum that overflowed, wrapped, and was brought back by Sub
C33_Witness ==
    /\ pc = "done" /\ outcome.kind = "Ok"
    /\ \E a, b \in h.arith :
          /\ a.op = "Add" /\ a.l + a.r > MaxInt /\ a.out.val.n < 0
          /\ b.op = "Sub" /\ b.l = a.out.val.n /\ b.r = a.r
          /\ outcome.val = Int64(a.l)

\* the other direction: a sum below the range, and a difference above it
C33_Underflow ==
    /\ pc = "done" /\ outcome.kind = "Ok"
    /\ \E a, b \in h.arith :
          /\ a.op = "Add" /\ a.l + a.r < MinInt /\ a.out.val.n >= 0
          /\ b.op = "Sub" /\ b.l - b.r > MaxInt
          /\ outcome.val = Int64(a.l)

(***************************************************************************)
(* How often a node is dispatched in one graph invocation.                 *)
(***************************************************************************)
\* whether a node of the graph takes one source node twice: at two parameter
\* positions, or as a parameter and as its precondition
TakesSourceTwice(g) ==
    \E t \in 1..Len(g.nodes) :
        \/ \E p, q \in 1..Len(g.nodes[t].in_edges) :
              p # q /\ g.nodes[t].in_edges[p] = g.nodes[t].in_edges[q]
        \/ \E p \in 1..Len(g.nodes[t].in_edges) : g.nodes[t].in_edges[p] = g.nodes[t].pre

\* C34, as stated: in one graph invocation a future is pushed for every node
\* at most once, whatever the shape of the graph, and with one parameter per
\* in-edge
C34_DispatchedOnce ==
    \A f \in LiveFrames :
        /\ \A t \in 1..Len(frames[f].starts) : frames[f].starts[t] <= 1
        /\ \A k \in 1..Len(frames[f].futures) :
              ~frames[f].futures[k].sel =>
                  Len(frames[f].futures[k].params)
                      = Len(GraphAt(frames[f].graph).nodes[frames[f].futures[k].node].in_edges)

\* what holds of the code: the same for the graphs in which no node takes a
\* source node twice
C34_OnceWithoutDuplicates ==
    \A f \in LiveFrames :
        ~TakesSourceTwice(GraphAt(frames[f].graph)) =>
            /\ \A t \in 1..Len(frames[f].starts) : frames[f].starts[t] <= 1
            /\ \A k \in 1..Len(frames[f].futures) :
                  ~frames[f].futures[k].sel =>
                      Len(frames[f].futures[k].params)
                          = Len(GraphAt(frames[f].graph).nodes[frames[f].futures[k].node].in_edges)

\* the Eq with in_edges [a, a] is dispatched twice, the second time without
\* parameters
C34_TwiceForTwoPositions ==
    \E f \in LiveFrames :
        /\ S.script = DupEdge
        /\ frames[f].starts[2] = 2
        /\ \E k \in 1..Len(frames[f].futures) :
              frames[f].futures[k].node = 2 /\ frames[f].futures[k].params = <<>>

\* so is the node that takes its source as a parameter and as its
\* precondition, when the precondition is true
C34_TwiceForPrecondition ==
    \E f \in LiveFrames :
        /\ S.script = DupPre
        /\ frames[f].starts[2] = 2
        /\ \E k \in 1..Len(frames[f].futures) :
              frames[f].futures[k].node = 2 /\ frames[f].futures[k].params = <<>>

\* and the run ends in the panic of the second dispatch
C34_SecondDispatchPanics ==
    pc = "done" /\ S.script = DupPre /\ outcome = Panic("index out of bounds")


(***************************************************************************)
(* Termination of run_graph.                                               *)
(*                                                                         *)
(* The futures of a graph invocation are polled by select_all, and every   *)
(* KV operation and every hook is assumed to complete: a step of the call  *)
(* in progress that stays enabled is eventually taken.  The caller is      *)
(* under no obligation to call run_graph again: RunNext carries no         *)
(* fairness condition.                                                     *)
(***************************************************************************)
\* begin_transaction returns, or the loop of run_graph is over
Begun == BeginTransaction \/ BeginTransactionFails \/ RetriesExhausted

\* commit returns
Committed == CommitOk \/ CommitConflict \/ CommitFails

\* select_all returns: a step of one of the node futures in flight
NodeStep ==
    \/ \E fk \in FutureIds : CompleteNode(fk[1], fk[2])
    \/ \E fk \in FutureIds : \E e \in {"KvError::Conflict", "KvError::Other"} :
          NodeKvError(fk[1], fk[2], e)
    \/ \E fk \in FutureIds : EnterSubgraph(fk[1], fk[2])
    \/ \E fk \in FutureIds : ReturnFromCall(fk[1], fk[2])
    \/ \E fk \in FutureIds : EnterReduce(fk[1], fk[2])
    \/ \E fk \in FutureIds : ReduceNext(fk[1], fk[2])

\* the entry invocation has a node future in flight: the state of
\* ENABLED <<NodeStep>>_vars
Pending == pc = "running" /\ ~GraphReturned

\* Pending is where a node future can take a step
PendingIsEnabled == Pending <=> ENABLED <<NodeStep>>_vars

\* WF_vars(NodeStep), with its ENABLED written as the state predicate Pending
NodeStepFair == []<>(~Pending) \/ []<><<NodeStep>>_vars

SpecLive ==
    /\ Init /\ [][Next]_vars
    /\ WF_vars(Begun) /\ WF_vars(Committed) /\ WF_vars(Sleep)
    /\ NodeStepFair

InCall == pc \in {"begin", "running", "sleep"}

\* C35: every run_graph call terminates, returning a value or an error
C35_ReturnsValueOrError == InCall ~> (pc = "done" /\ outcome.kind \in {"Ok", "Err"})

\* C35 (the part that holds): every run_graph call ends, by a value, an error or
\* a panic
C35_Ends == InCall ~> (pc = "done")

\* C35: a call that ended by a panic of the executor, neither a value nor an error
C35_EndedByPanic == pc = "done" /\ outcome.kind = "Panic"

\* C35: a call that ended after MAX_ATTEMPTS attempts
C35_EndedAfterAttempts ==
    pc = "done" /\ outcome = Err("ConflictAfterRetries") /\ h.begins = MAX_ATTEMPTS

\* C35: a call that ended where the recursion was cut at MAX_RECURSION_DEPTH
C35_EndedAtDepth ==
    pc = "done" /\ outcome.kind = "Err" /\ outcome.err = "MaxRecursionDepthExceeded"


(***************************************************************************)
(* Select: the first candidate's value, passed through.                    *)
(***************************************************************************)
\* the Select nodes of the live invocations one of whose candidates has produced
\* a value
SelectsFed ==
    UNION {{[fr |-> frames[f], g |-> GraphAt(frames[f].graph), t |-> t] :
                t \in {j \in 1..Len(GraphAt(frames[f].graph).nodes) :
                          /\ is_select(GraphAt(frames[f].graph).nodes[j])
                          /\ frames[f].early[j] # NoCandidate}}
           : f \in {x \in 1..Len(frames) : frames[x].live}}

\* the futures of the Select in flight
SelectPending(x) == {k \in 1..Len(x.fr.futures) : x.fr.futures[k].node = x.t}

\* a candidate of the Select that has not completed
OtherCandidateOpen(x) ==
    \E p \in 1..Len(x.g.nodes[x.t].in_edges) : x.fr.results[x.g.nodes[x.t].in_edges[p]] = Unset

\* C36: a Select whose precondition is satisfied when its first candidate
\* produces a value is dispatched in that iteration of the loop, once, with that
\* value, and completes with exactly that value
C36_SelectPassesFirstCandidate ==
    \A x \in SelectsFed :
        x.fr.early[x.t].pre =>
            /\ x.fr.starts[x.t] = 1
            /\ \A k \in SelectPending(x) :
                   /\ x.fr.futures[k].sel
                   /\ x.fr.futures[k].params = <<x.fr.early[x.t].val>>
            /\ x.fr.results[x.t] \in {Unset, Ok(x.fr.early[x.t].val)}
            /\ (SelectPending(x) = {}) = (x.fr.results[x.t] # Unset)

\* C36: a Select completed with the value of its first candidate while its other
\* candidate had not completed
C36_Witness ==
    \E x \in SelectsFed :
        /\ x.fr.early[x.t].pre
        /\ x.fr.results[x.t] = Ok(x.fr.early[x.t].val)
        /\ OtherCandidateOpen(x)

\* C36: a Select completed with a Null passed through
C36_NullPassedThrough ==
    \E x \in SelectsFed :
        /\ x.fr.early[x.t].pre
        /\ x.fr.results[x.t] = Ok(x.fr.early[x.t].val)
        /\ x.fr.early[x.t].val.t = "Null"

\* C36: a Select whose precondition was satisfied after both candidates had
\* produced a value completed with the value in the lowest position, not with
\* the value produced first
C36_LateGateTakesLowestPosition ==
    \E x \in SelectsFed :
        /\ ~x.fr.early[x.t].pre
        /\ x.fr.results[x.t].kind = "Ok"
        /\ x.fr.results[x.t] # Ok(x.fr.early[x.t].val)


(***************************************************************************)
(* An invocation returns Ok only after every node it started completed.    *)
(***************************************************************************)
\* the parameters of node t as its sources completed
ProducedParams(fr, g, t) ==
    [p \in 1..Len(g.nodes[t].in_edges) |-> fr.results[g.nodes[t].in_edges[p]].val]

\* every parameter of node t was produced and its precondition is satisfied
Eligible(fr, g, t) ==
    /\ ~is_select(g.nodes[t])
    /\ \A p \in 1..Len(g.nodes[t].in_edges) :
           /\ fr.results[g.nodes[t].in_edges[p]].kind = "Ok"
           /\ IsSome(fr.results[g.nodes[t].in_edges[p]].val)
    /\ g.nodes[t].pre # 0 =>
           /\ fr.results[g.nodes[t].pre].kind = "Ok"
           /\ PreconditionValue(fr.results[g.nodes[t].pre].val).satisfied

\* the effect of node t is in the write buffer of the invocation's transaction
Issued(fr, g, t) ==
    /\ \A e \in 1..Len(Effect(g.nodes[t], ProducedParams(fr, g, t))) :
           \E k \in 1..Len(h.effects) :
               h.effects[k] = Effect(g.nodes[t], ProducedParams(fr, g, t))[e]
    /\ Effect(g.nodes[t], ProducedParams(fr, g, t)) # <<>> =>
           DOMAIN txns[fr.txn].writes # {}

\* no node future is in flight, and every eligible node has completed and
\* issued its writes
AllCompleted(fr, g) ==
    /\ fr.futures = <<>>
    /\ \A t \in 1..Len(g.nodes) :
           /\ fr.starts[t] >= 1 => fr.results[t].kind = "Ok"
           /\ Eligible(fr, g, t) =>
                  /\ fr.starts[t] >= 1
                  /\ fr.results[t].kind = "Ok"
                  /\ Issued(fr, g, t)

\* an effect node of the graph that no node consumes and that is not the output
Unconsumed(g, t) ==
    /\ g.nodes[t].op \in {"InsertIntoTable", "InsertIntoSet", "DeleteFromSet"}
    /\ g.output # t
    /\ \A j \in 1..Len(g.nodes) :
           /\ g.nodes[j].pre # t
           /\ \A p \in 1..Len(g.nodes[j].in_edges) : g.nodes[j].in_edges[p] # t

\* C37: commit is called only after the entry invocation ran out of futures:
\* every node it started has completed, and every effect node whose parameters
\* were produced and whose precondition is satisfied has issued its writes
C37_OkAfterEveryNode ==
    [][(pc = "running" /\ h'.commits = h.commits + 1)
           => AllCompleted(frames[1], GraphAt(1))]_vars

\* C37: the entry invocation returned with an output, and an effect node that
\* no node consumes has issued its writes
C37_Witness ==
    /\ GraphReturned
    /\ IsSome(frames[1].ret)
    /\ \E t \in 1..Len(GraphAt(1).nodes) :
           /\ Unconsumed(GraphAt(1), t)
           /\ Eligible(frames[1], GraphAt(1), t)
           /\ Effect(GraphAt(1).nodes[t], ProducedParams(frames[1], GraphAt(1), t)) # <<>>
           /\ Issued(frames[1], GraphAt(1), t)

\* C37: the output node has completed and an unconsumed effect node is still in
\* flight: the invocation has not returned
C37_OutputFirst ==
    /\ pc = "running" /\ frames[1].live
    /\ GraphAt(1).output # 0
    /\ frames[1].results[GraphAt(1).output].kind = "Ok"
    /\ \E k \in 1..Len(frames[1].futures) :
           Unconsumed(GraphAt(1), frames[1].futures[k].node)


(***************************************************************************)
(* Insert over prior contents, then read.                                  *)
(***************************************************************************)
IsPrefix(p, q) == Len(p) <= Len(q) /\ SubSeq(q, 1, Len(p)) = p

\* the last committed effect is the insertion of a fresh member into a resident
\* set
MemberInserted ==
    /\ h.prev # <<>>
    /\ h.prev[Len(h.prev)].op = "InsertIntoSet"
    /\ IsFresh(h.prev[Len(h.prev)].params[1])

\* the member it inserted, and the walker the member was written at
NewTree == h.prev[Len(h.prev)].params[1]
NewTreeAt == enter_set(h.prev[Len(h.prev)].params[2].p, NewTree.f["id"])

\* the read is of a field of the inserted member itself
ReadsAt(r) == TableOf(r).p = NewTreeAt

\* the read is below a field that the inserted member holds as Null
ReadsBelowNull(r) ==
    \E g \in DOMAIN NewTree.f :
        /\ is_null(NewTree.f[g])
        /\ IsPrefix(enter_field(NewTreeAt, g), TableOf(r).p)

\* C38: after a committed InsertIntoSet of a fresh member, whatever the store
\* held before, a field read at the member returns the member's value, and a
\* field read below a table-typed or set-typed field that the member holds as
\* Null returns Null
C38_ReadsNewTree ==
    \A r \in FieldReads :
        MemberInserted =>
            /\ ReadsAt(r) => ValueOf(r) = NewTree.f[FieldOf(r)]
            /\ ReadsBelowNull(r) => is_null(ValueOf(r))

\* C38 (the part that holds): the fields of the inserted member itself read as
\* the member holds them, a Null where it holds Null
C38_OwnFieldsReadNew ==
    \A r \in FieldReads :
        (MemberInserted /\ ReadsAt(r)) => ValueOf(r) = NewTree.f[FieldOf(r)]

\* C38: a primitive field that held a value is read as Null after the insertion
\* of a member that holds Null for it
C38_OwnNullOverValue ==
    \E r \in FieldReads :
        /\ MemberInserted /\ ReadsAt(r)
        /\ enter_field(NewTreeAt, FieldOf(r)) \in DOMAIN S.kv0
        /\ is_null(ValueOf(r))

\* C38: below the set written as Null, a member of the previous contents is read
C38_LeftoverBelowNullSet ==
    \E r \in FieldReads :
        /\ MemberInserted /\ ReadsBelowNull(r)
        /\ TableNodeOf(r).op = "GetSetElement"
        /\ ValueOf(r) = S.kv0[enter_field(TableOf(r).p, FieldOf(r))]

\* C38: below the table written as Null, a field of the previous contents is read
C38_LeftoverBelowNullTable ==
    \E r \in FieldReads :
        /\ MemberInserted /\ ReadsBelowNull(r)
        /\ TableNodeOf(r).op = "GetField"
        /\ ValueOf(r) = S.kv0[enter_field(TableOf(r).p, FieldOf(r))]


(***************************************************************************)
(* DeleteFromSet changes one member only.                                  *)
(***************************************************************************)
\* a single run has committed, having deleted one member of a resident set
DeletedOnce ==
    /\ pc = "done" /\ outcome.kind = "Ok" /\ ~h.chained
    /\ Len(h.prev) = 1 /\ h.prev[1].op = "DeleteFromSet"

\* the set's walker and the serialized primary key of the deleted member
DeletedFrom == h.prev[1].params[2].p
DeletedKey == serialize_for_key_component(h.prev[1].params[1])

\* the serialized primary keys with a membership entry in the set at `path`
Membership(store, path) ==
    {SubSeq(k, Len(path) + 2, Len(k)) :
        k \in {x \in DOMAIN store : /\ HasPrefix(x, set_fast_scan_prefix(path))
                                   /\ Len(x) > Len(path) + 1}}

\* whether the key is the membership entry or a data key of the member pk
OfMember(k, path, pk) ==
    \/ k = set_fast_scan_prefix(path) \o pk
    \/ HasPrefix(k, enter_set_raw(path, pk))

\* the byte range delete_entry_from_set clears
InDeletedRange(k) ==
    /\ HasPrefix(k, set_data_prefix(DeletedFrom))
    /\ LET rest == SubSeq(k, Len(DeletedFrom) + 2, Len(k))
       IN  (rest = DeletedKey \o <<0>> \/ KeyLess(DeletedKey \o <<0>>, rest))
               /\ KeyLess(rest, DeletedKey \o <<1>>)

\* C39: DeleteFromSet(k) on a resident set removes the fast-scan entry of k and
\* the data keys in [data_prefix . k . 0x00, data_prefix . k . 0x01); the
\* membership entry and every data key of every other member k' of the set,
\* also of those whose bytes k is a prefix of, and every key outside the set
\* are as before
C39_OnlyMemberChanged ==
    DeletedOnce =>
        /\ set_fast_scan_prefix(DeletedFrom) \o DeletedKey \notin DOMAIN kv
        /\ \A k \in DOMAIN kv : ~InDeletedRange(k)
        /\ \A pk \in Membership(h.kv0, DeletedFrom) \ {DeletedKey} :
               \A k \in DOMAIN h.kv0 :
                   OfMember(k, DeletedFrom, pk) => StoreGet(kv, k) = h.kv0[k]
        /\ \A k \in DOMAIN h.kv0 \cup DOMAIN kv :
               ~UnderSet(k, DeletedFrom) => StoreGet(kv, k) = StoreGet(h.kv0, k)

\* k' extends the bytes of k by a 0x00 byte and more
NulExtends(pk, k) == Len(pk) > Len(k) + 1 /\ HasPrefix(pk, k \o <<0>>)

\* C39 (the part that holds): the same, for the other members whose primary key
\* bytes are not those of k followed by a 0x00 byte
C39_OthersUnchangedButNulExtensions ==
    DeletedOnce =>
        /\ set_fast_scan_prefix(DeletedFrom) \o DeletedKey \notin DOMAIN kv
        /\ \A k \in DOMAIN kv : ~InDeletedRange(k)
        /\ \A pk \in Membership(h.kv0, DeletedFrom) \ {DeletedKey} :
               \A k \in DOMAIN h.kv0 :
                   (OfMember(k, DeletedFrom, pk) /\ ~NulExtends(pk, DeletedKey))
                       => StoreGet(kv, k) = h.kv0[k]
        /\ \A k \in DOMAIN h.kv0 \cup DOMAIN kv :
               ~UnderSet(k, DeletedFrom) => StoreGet(kv, k) = StoreGet(h.kv0, k)

\* C39: the member k was deleted; a member whose key bytes are k, 0x00 and one
\* more byte is still listed in the fast-scan subspace and has lost its data
C39_NulExtensionLosesData ==
    /\ DeletedOnce
    /\ \E pk \in Membership(kv, DeletedFrom) :
           /\ NulExtends(pk, DeletedKey)
           /\ \E k \in DOMAIN h.kv0 : HasPrefix(k, enter_set_raw(DeletedFrom, pk))
           /\ \A k \in DOMAIN kv : ~HasPrefix(k, enter_set_raw(DeletedFrom, pk))

\* C39: the member k was deleted with its data; a member whose key bytes extend
\* those of k by another byte, the other members and the neighbouring sets are
\* as before
C39_PrefixExtensionKept ==
    /\ DeletedOnce
    /\ \E k \in DOMAIN h.kv0 : InDeletedRange(k)
    /\ \E pk \in Membership(kv, DeletedFrom) :
           /\ HasPrefix(pk, DeletedKey) /\ ~NulExtends(pk, DeletedKey)
           /\ \E k \in DOMAIN kv : HasPrefix(k, enter_set_raw(DeletedFrom, pk))
    /\ \E k \in DOMAIN kv : ~UnderSet(k, DeletedFrom) /\ KeyLess(k, DeletedFrom)
    /\ \E k \in DOMAIN kv : ~UnderSet(k, DeletedFrom) /\ KeyLess(DeletedFrom, k)


(***************************************************************************)
(* The planner ends on recursive schemas.                                  *)
(***************************************************************************)
\* how many named types the field type holds: 0 or 1
RECURSIVE NamedIn(_)
NamedIn(ty) ==
    CASE ty.k = "Named" -> 1
      [] ty.k \in {"Optional", "Set"} -> NamedIn(ty.inner[1])
      [] OTHER -> 0

RECURSIVE NamedAmong(_, _)
NamedAmong(entries, e) ==
    IF e > Len(entries) THEN 0 ELSE NamedIn(entries[e].ty) + NamedAmong(entries, e + 1)

RECURSIVE NamedInTypes(_, _)
NamedInTypes(schema, names) ==
    IF names = {} THEN 0
    ELSE LET n == CHOOSE x \in names : TRUE
         IN  NamedAmong(schema.types[n], 1) + NamedInTypes(schema, names \ {n})

\* the occurrences of named types in the schema: those of its exports and
\* those of the fields of its types
Occurrences(schema) ==
    NamedAmong(schema.exports, 1) + NamedInTypes(schema, DOMAIN schema.types)

\* how many fields were entered on the way to a node of a plan
FieldsEntered(path) == Cardinality({j \in 2..Len(path) : path[j] # "[]"})

\* the node is one that refers back to an occurrence on the generation stack
BackReferences(plan) == {nd \in PlanNodes(plan) : nd.subspace_reference}

\* C40: generate_plan_for_schema ends for every schema, also those with
\* directly and mutually recursive types, recursion through Optional and Set
\* and a named type used at several places: no generation runs on until it is
\* given up, and a path of the plan enters at most as many fields as the
\* schema has occurrences of named types, each cyclic path ending in a
\* subspace reference
C40_GenerationEnds ==
    /\ pl.err # "Overrun"
    /\ \A g \in GeneratedPlans :
           \A nd \in PlanNodes(g.plan) : FieldsEntered(nd.path) <= Occurrences(g.schema)

\* C40: the plan of the mutually recursive schema was generated: it took more
\* calls than the schema has occurrences, and it holds back references below
\* both exports, one of them below the element node of a set and one of them
\* three fields down
C40_Witness ==
    /\ pl.step = "new" /\ pl.err = "" /\ M.new = SchemaMutual
    /\ pl.calls > Occurrences(SchemaMutual)
    /\ \E nd \in BackReferences(pl.p1) : nd.path[1] = "a" /\ \E j \in DOMAIN nd.path : nd.path[j] = "[]"
    /\ \E nd \in BackReferences(pl.p1) : nd.path[1] = "bs"
    /\ \E nd \in BackReferences(pl.p1) : FieldsEntered(nd.path) > 2

\* C40: the first plan of the binary tree, recursive through Optional at two
\* places, ended with back references at left and right
C40_DirectThroughOptional ==
    /\ pl.step = "old" /\ pl.err = "" /\ M.old = SchemaTree
    /\ \E nd \in BackReferences(pl.p0) : nd.path[Len(nd.path)] = "left"
    /\ \E nd \in BackReferences(pl.p0) : nd.path[Len(nd.path)] = "right"

\* C40: the first plan of the directory, recursive through Set, ended with a
\* back reference as the element node of a set
C40_ThroughSet ==
    /\ pl.step = "old" /\ pl.err = "" /\ M.old = SchemaDir
    /\ \E nd \in BackReferences(pl.p0) : nd.path[Len(nd.path)] = "[]"

====
